---- MODULE Spec2Model ----
(***************************************************************************)
(* Saga orchestrator (src/orchestrator/index.js) and the direct TCP        *)
(* transport (src/unnamed/part_001, TCPTransport) as state machines.       *)
(*                                                                         *)
(* Spec     : the coordinator.  handleMessage is started by the transport  *)
(*            callback without being awaited, so an invocation is a small  *)
(*            process: its synchronous part (saga mutation and the first   *)
(*            publish call) is one step, every awaited publish is a        *)
(*            suspension point that resumes in a later step.               *)
(* SpecTcp  : one TCPTransport instance publishing to channels whose       *)
(*            listening endpoints are created by subscribe.                *)
(* SpecTcpSender, SpecTcpAck, SpecTcpSubscribe : the same transport with   *)
(*            the steps that matter to the publishing side, to the ACK     *)
(*            frames and to repeated subscribes.                           *)
(* SpecPorts : the port registry of one TCPTransport instance.             *)
(* SpecFacade : MessageService over the transport the factory selects,     *)
(*            and setupMessageService of the orchestrator.                 *)
(* SpecRouting : the coordinator with event types outside its table.       *)
(* SpecTcpClose : the transport with close() of the publishing process.    *)
(* SpecFacadeConcurrent : facade calls that are not awaited by the caller. *)
(* SpecStartup : the coordinator started over the facade.                  *)
(* SpecSaga, SpecSagaFair : the coordinator with the order, inventory and  *)
(*            payment services on a transport that delivers every message. *)
(* SpecTcpSenderFair : SpecTcpSender in which every connection attempt     *)
(*            ends.                                                        *)
(* SpecInventory : the inventory service with any events on its queue.     *)
(* SpecFacadeRetry : facade calls, publishes included, awaited in turn.    *)
(* SpecRegistry : the saga handlers under every registry of core services. *)
(***************************************************************************)
EXTENDS Integers, Sequences, FiniteSets, TLC

(* ------------------------------ bounds --------------------------------- *)
MaxEvents == 3
MaxInFlight == 2
MaxPublish == 3
MaxFacadeCalls == 3
MaxPortCalls == 3
MaxAckPublish == 2
MaxSubscribePublish == 1
MaxClosePublish == 2

(* ----------------------------- vocabulary ------------------------------ *)
ORDER_CREATED == "ORDER_CREATED"
INVENTORY_CHECK_REQUESTED == "INVENTORY_CHECK_REQUESTED"
INVENTORY_CHECK_SUCCEEDED == "INVENTORY_CHECK_SUCCEEDED"
INVENTORY_CHECK_FAILED == "INVENTORY_CHECK_FAILED"
INVENTORY_RESERVED == "INVENTORY_RESERVED"
INVENTORY_RELEASED == "INVENTORY_RELEASED"
PAYMENT_REQUESTED == "PAYMENT_REQUESTED"
PAYMENT_SUCCEEDED == "PAYMENT_SUCCEEDED"
PAYMENT_FAILED == "PAYMENT_FAILED"
ORDER_COMPLETED == "ORDER_COMPLETED"
ORDER_CANCELLED == "ORDER_CANCELLED"

\* value of a property that an object does not have
Undefined == "undefined"

inventoryServiceContract ==
  [name |-> "inventory-service", queueName |-> "inventory_service_queue",
   handles |-> {INVENTORY_CHECK_REQUESTED, INVENTORY_RESERVED, INVENTORY_RELEASED},
   produces |-> {INVENTORY_CHECK_SUCCEEDED, INVENTORY_CHECK_FAILED}]

paymentServiceContract ==
  [name |-> "payment-service", queueName |-> "payment_service_queue",
   handles |-> {PAYMENT_REQUESTED},
   produces |-> {PAYMENT_SUCCEEDED, PAYMENT_FAILED}]

orderServiceContract ==
  [name |-> "order-service", queueName |-> "order_service_queue",
   handles |-> {ORDER_COMPLETED, ORDER_CANCELLED},
   produces |-> {ORDER_CREATED}]

(* --------------------------- inbound events ---------------------------- *)
\* the inbound events: every order has its own customer, items, amount,
\* transaction id and failure texts, and two possible reservation ids
OrderNumbers == {1, 2}

OrderId(n) == "O" \o ToString(n)

OrderIds == { OrderId(n) : n \in OrderNumbers }

ItemsOf(n) == << [id |-> "item-" \o ToString(n), quantity |-> n] >>

ShortOf(n) == << [id |-> "item-" \o ToString(n), requested |-> n, available |-> 0] >>

ReservationIds == {"R1", "R2"}

OrderCreatedEvents ==
  { [type |-> ORDER_CREATED,
     data |-> [orderId |-> OrderId(n), customerId |-> "customer-" \o ToString(n),
               items |-> ItemsOf(n), totalAmount |-> 100 * n]] : n \in OrderNumbers }

InventorySucceededEvents ==
  { [type |-> INVENTORY_CHECK_SUCCEEDED, data |-> [orderId |-> o, reservationId |-> r]] :
       o \in OrderIds, r \in ReservationIds }

InventoryFailedEvents ==
  { [type |-> INVENTORY_CHECK_FAILED,
     data |-> [orderId |-> OrderId(n), reason |-> "insufficient stock " \o ToString(n),
               insufficientItems |-> ShortOf(n)]] : n \in OrderNumbers }

PaymentSucceededEvents ==
  { [type |-> PAYMENT_SUCCEEDED,
     data |-> [orderId |-> OrderId(n), transactionId |-> "T" \o ToString(n)]] :
       n \in OrderNumbers }

PaymentFailedEvents ==
  { [type |-> PAYMENT_FAILED,
     data |-> [orderId |-> OrderId(n), reason |-> "insufficient funds " \o ToString(n)]] :
       n \in OrderNumbers }

\* an event of the vocabulary for which findEventHandler has no entry
UnroutedEvents ==
  { [type |-> INVENTORY_RESERVED, data |-> [orderId |-> OrderId(1), reservationId |-> "R1"]] }

\* an event whose type is not a key of the handlers table of findEventHandler
\* but names a property that the table inherits from Object.prototype
InheritedNameEvents ==
  { [type |-> "hasOwnProperty", data |-> [orderId |-> OrderId(1)]] }

InboundEvents ==
  OrderCreatedEvents \cup InventorySucceededEvents \cup InventoryFailedEvents
    \cup PaymentSucceededEvents \cup PaymentFailedEvents \cup UnroutedEvents

(* ------------------------------- state --------------------------------- *)
VARIABLES
  serviceRegistry,  \* orchestrator: service name -> contract
  subscribed,       \* orchestrator: handleMessage is subscribed to orchestrator_queue
  sagaStore,        \* orchestrator: orderId -> saga object
  calls,            \* handleMessage invocations, in the order they started
  published,        \* messageService.publish calls of the orchestrator, in call order
  acked,            \* indices of calls for which messageService.acknowledge ran
  tcpRegistry,      \* TCPTransport.serviceRegistry of the publishing process: name -> port
  clients,          \* TCPTransport.clients of the publishing process: channel -> socket (0: none)
  messageQueue,     \* TCPTransport.messageQueue of the publishing process: channel -> messages
  servers,          \* TCPTransport.servers[channel] of the process that owns the channel
  handlers,         \* TCPTransport.handlers[channel] of the process that owns the channel
  socks,            \* the net.Socket objects made by connectToServer, in creation order
  pubCalls,         \* TCPTransport.publish calls, in call order
  delivered,        \* channel -> the handler invocations of the data callback, in order
  queuedLog,        \* channel -> every message that publish has put on messageQueue, in order
  env,              \* process.env of a process that uses the facade, and the broker's state
  messageService,   \* the MessageService object with its transport object
  msCalls,          \* calls of the facade's methods, in call order, with their outcome
  setup,            \* where setupMessageService of that process has got to
  ownName,          \* the service name a TCPTransport instance is initialised with
  portLog,          \* the ports returned by registerService and getPortForChannel, in call order
  orders,           \* order-service: orderId -> order
  inventoryItems,   \* inventory-service: item id -> item with its stock
  reservations,     \* inventory-service: reservationId -> reservation
  payments,         \* payment-service: transactionId -> payment
  toOrchestrator,   \* the messages the services published to orchestrator_queue, in order
  consumed          \* per service queue: how many of its messages the service has handled

orchVars == << serviceRegistry, subscribed, sagaStore, calls, published, acked >>

tcpVars == << tcpRegistry, clients, messageQueue, servers, handlers, socks, pubCalls,
              delivered, queuedLog >>

facadeVars == << env, messageService, msCalls, setup >>

\* what the actions of one part leave alone
portVars == << ownName, portLog >>

svcVars == << orders, inventoryItems, reservations, payments, toOrchestrator, consumed >>

notOrchVars == << tcpVars, facadeVars, portVars, svcVars >>
notTcpVars == << orchVars, facadeVars, portVars, svcVars >>
notFacadeVars == << orchVars, tcpVars, portVars, svcVars >>
notSvcVars == << orchVars, tcpVars, facadeVars, portVars >>

vars == << serviceRegistry, subscribed, sagaStore, calls, published, acked,
           tcpRegistry, clients, messageQueue, servers, handlers, socks, pubCalls,
           delivered, queuedLog, env, messageService, msCalls, setup,
           ownName, portLog, orders, inventoryItems, reservations, payments,
           toOrchestrator, consumed >>

EmptyMap == [x \in {} |-> Undefined]

\* obj[f] = v on a JS object (adds the property when it is missing)
SetProp(obj, f, v) == (f :> v) @@ obj

\* obj[f] on a JS object
GetProp(obj, f) == IF f \in DOMAIN obj THEN obj[f] ELSE Undefined


(* ------------------------ orchestrator: handlers ----------------------- *)
\* one messageService.publish(queueName, message) call
Pub(queueName, type, data) ==
  [queueName |-> queueName, message |-> [type |-> type, data |-> data]]

\* a recorded step of a saga (the timestamp is not modelled)
Step(content) == [type |-> content.type, data |-> content.data]

\* result of a handler that returns before touching anything
Dropped(store) == [store |-> store, pubs |-> << >>]

\* handlers that publish to the queue named after the service when the
\* service is not registered
PubsWhileRegistered_byName(reg, wanted) ==
  [k \in 1..Len(wanted) |->
     Pub(IF wanted[k].service \in DOMAIN reg THEN reg[wanted[k].service].queueName
         ELSE wanted[k].service \o "_queue",
         wanted[k].type, wanted[k].data)]

\* the publishes a handler goes through, in order; it returns at the first
\* target service that is not registered
PubsWhileRegistered(reg, wanted) ==
  LET RECURSIVE upTo(_)
      upTo(k) == IF k > Len(wanted) \/ wanted[k].service \notin DOMAIN reg
                 THEN << >>
                 ELSE << Pub(reg[wanted[k].service].queueName, wanted[k].type, wanted[k].data) >>
                        \o upTo(k + 1)
  IN upTo(1)

\* handleInventoryCheckSuccess without the "saga not found" return
handleInventoryCheckSuccess_upsert(store, reg, content) ==
  LET d == content.data
      old  == IF d.orderId \in DOMAIN store THEN store[d.orderId]
              ELSE [id |-> d.orderId, steps |-> << >>]
      saga == SetProp(SetProp([old EXCEPT !.steps = Append(@, Step(content))],
                              "status", "PAYMENT_PENDING"),
                      "reservationId", d.reservationId)
  IN [store |-> SetProp(store, d.orderId, saga),
      pubs  |-> PubsWhileRegistered(reg,
                  << [service |-> "payment-service", type |-> PAYMENT_REQUESTED,
                      data |-> [orderId |-> d.orderId,
                                customerId |-> GetProp(saga, "customerId"),
                                amount |-> GetProp(saga, "totalAmount")]] >>)]

\* handleInventoryCheckFailure that forgets to store the insufficient items
handleInventoryCheckFailure_noItems(store, reg, content) ==
  LET d == content.data IN
  IF d.orderId \notin DOMAIN store THEN Dropped(store)
  ELSE
    LET old  == store[d.orderId]
        saga == SetProp(SetProp([old EXCEPT !.steps = Append(@, Step(content))],
                                "status", "FAILED"),
                        "failureReason", d.reason)
    IN [store |-> SetProp(store, d.orderId, saga),
        pubs  |-> PubsWhileRegistered(reg,
                    << [service |-> "order-service", type |-> ORDER_CANCELLED,
                        data |-> [orderId |-> d.orderId, reason |-> d.reason,
                                  insufficientItems |-> d.insufficientItems]] >>)]

\* handlePaymentSuccess that notifies the order service before the inventory service
handlePaymentSuccess_swapped(store, reg, content) ==
  LET d == content.data IN
  IF d.orderId \notin DOMAIN store THEN Dropped(store)
  ELSE
    LET old  == store[d.orderId]
        saga == SetProp(SetProp([old EXCEPT !.steps = Append(@, Step(content))],
                                "status", "COMPLETED"),
                        "transactionId", d.transactionId)
    IN [store |-> SetProp(store, d.orderId, saga),
        pubs  |-> PubsWhileRegistered(reg,
                    << [service |-> "order-service", type |-> ORDER_COMPLETED,
                        data |-> [orderId |-> d.orderId, transactionId |-> d.transactionId]],
                       [service |-> "inventory-service", type |-> INVENTORY_RESERVED,
                        data |-> [orderId |-> d.orderId,
                                  reservationId |-> GetProp(saga, "reservationId")]] >>)]

\* handlePaymentFailure that cancels the order before it releases the inventory
handlePaymentFailure_swapped(store, reg, content) ==
  LET d == content.data IN
  IF d.orderId \notin DOMAIN store THEN Dropped(store)
  ELSE
    LET old  == store[d.orderId]
        saga == SetProp(SetProp([old EXCEPT !.steps = Append(@, Step(content))],
                                "status", "FAILED"),
                        "failureReason", d.reason)
    IN [store |-> SetProp(store, d.orderId, saga),
        pubs  |-> PubsWhileRegistered(reg,
                    << [service |-> "order-service", type |-> ORDER_CANCELLED,
                        data |-> [orderId |-> d.orderId, reason |-> d.reason]],
                       [service |-> "inventory-service", type |-> INVENTORY_RELEASED,
                        data |-> [orderId |-> d.orderId,
                                  reservationId |-> GetProp(saga, "reservationId")]] >>)]

handleOrderCreated(store, reg, content) ==
  LET d == content.data
      saga == [id |-> d.orderId, customerId |-> d.customerId, items |-> d.items,
               totalAmount |-> d.totalAmount, status |-> "INVENTORY_CHECK_PENDING",
               steps |-> << Step(content) >>]
  IN [store |-> SetProp(store, d.orderId, saga),
      pubs  |-> PubsWhileRegistered(reg,
                  << [service |-> "inventory-service", type |-> INVENTORY_CHECK_REQUESTED,
                      data |-> [orderId |-> d.orderId, items |-> d.items]] >>)]

handleInventoryCheckSuccess(store, reg, content) ==
  LET d == content.data IN
  IF d.orderId \notin DOMAIN store THEN Dropped(store)
  ELSE
    LET old  == store[d.orderId]
        saga == SetProp(SetProp([old EXCEPT !.steps = Append(@, Step(content))],
                                "status", "PAYMENT_PENDING"),
                        "reservationId", d.reservationId)
    IN [store |-> SetProp(store, d.orderId, saga),
        pubs  |-> PubsWhileRegistered(reg,
                    << [service |-> "payment-service", type |-> PAYMENT_REQUESTED,
                        data |-> [orderId |-> d.orderId, customerId |-> saga.customerId,
                                  amount |-> saga.totalAmount]] >>)]

handleInventoryCheckFailure(store, reg, content) ==
  LET d == content.data IN
  IF d.orderId \notin DOMAIN store THEN Dropped(store)
  ELSE
    LET old  == store[d.orderId]
        saga == SetProp(SetProp(SetProp([old EXCEPT !.steps = Append(@, Step(content))],
                                        "status", "FAILED"),
                                "failureReason", d.reason),
                        "insufficientItems", d.insufficientItems)
    IN [store |-> SetProp(store, d.orderId, saga),
        pubs  |-> PubsWhileRegistered(reg,
                    << [service |-> "order-service", type |-> ORDER_CANCELLED,
                        data |-> [orderId |-> d.orderId, reason |-> d.reason,
                                  insufficientItems |-> d.insufficientItems]] >>)]

handlePaymentSuccess(store, reg, content) ==
  LET d == content.data IN
  IF d.orderId \notin DOMAIN store THEN Dropped(store)
  ELSE
    LET old  == store[d.orderId]
        saga == SetProp(SetProp([old EXCEPT !.steps = Append(@, Step(content))],
                                "status", "COMPLETED"),
                        "transactionId", d.transactionId)
    IN [store |-> SetProp(store, d.orderId, saga),
        pubs  |-> PubsWhileRegistered(reg,
                    << [service |-> "inventory-service", type |-> INVENTORY_RESERVED,
                        data |-> [orderId |-> d.orderId,
                                  reservationId |-> GetProp(saga, "reservationId")]],
                       [service |-> "order-service", type |-> ORDER_COMPLETED,
                        data |-> [orderId |-> d.orderId, transactionId |-> d.transactionId]] >>)]

handlePaymentFailure(store, reg, content) ==
  LET d == content.data IN
  IF d.orderId \notin DOMAIN store THEN Dropped(store)
  ELSE
    LET old  == store[d.orderId]
        saga == SetProp(SetProp([old EXCEPT !.steps = Append(@, Step(content))],
                                "status", "FAILED"),
                        "failureReason", d.reason)
    IN [store |-> SetProp(store, d.orderId, saga),
        pubs  |-> PubsWhileRegistered(reg,
                    << [service |-> "inventory-service", type |-> INVENTORY_RELEASED,
                        data |-> [orderId |-> d.orderId,
                                  reservationId |-> GetProp(saga, "reservationId")]],
                       [service |-> "order-service", type |-> ORDER_CANCELLED,
                        data |-> [orderId |-> d.orderId, reason |-> d.reason]] >>)]

\* property names that the handlers table, an object literal, inherits from
\* Object.prototype; the value is a built-in function, which is truthy
ObjectPrototypeNames == { "hasOwnProperty" }

\* a handlers table with one entry too many
findEventHandler_extraEntry(eventType) ==
  IF eventType \in {ORDER_CREATED, INVENTORY_CHECK_SUCCEEDED, INVENTORY_CHECK_FAILED,
                    PAYMENT_SUCCEEDED, PAYMENT_FAILED}
  THEN eventType
  ELSE IF eventType = INVENTORY_RESERVED
       THEN INVENTORY_CHECK_SUCCEEDED
       ELSE IF eventType \in ObjectPrototypeNames THEN "Object.prototype" ELSE Undefined

\* handlers[eventType]: the handler of the entry, named by its event type
findEventHandler(eventType) ==
  IF eventType \in {ORDER_CREATED, INVENTORY_CHECK_SUCCEEDED, INVENTORY_CHECK_FAILED,
                    PAYMENT_SUCCEEDED, PAYMENT_FAILED}
  THEN eventType
  ELSE IF eventType \in ObjectPrototypeNames THEN "Object.prototype" ELSE Undefined

\* handler(content) for the handler that findEventHandler selected; a built-in
\* of Object.prototype called without a receiver throws, which the try of
\* handleMessage catches: nothing is stored and nothing is published
RunHandler(store, reg, content) ==
  LET handler == findEventHandler(content.type) IN
  CASE handler = ORDER_CREATED             -> handleOrderCreated(store, reg, content)
    [] handler = INVENTORY_CHECK_SUCCEEDED -> handleInventoryCheckSuccess(store, reg, content)
    [] handler = INVENTORY_CHECK_FAILED    -> handleInventoryCheckFailure(store, reg, content)
    [] handler = PAYMENT_SUCCEEDED         -> handlePaymentSuccess(store, reg, content)
    [] handler = PAYMENT_FAILED            -> handlePaymentFailure(store, reg, content)
    [] handler = "Object.prototype"        -> Dropped(store)

(* ------------------------ orchestrator: actions ------------------------ *)
\* a handleMessage that acknowledges at the end of its try block only
EndDispatch_ackInTry(call, outcome) ==
  [call EXCEPT !.outcome = outcome,
               !.acks = IF outcome = "returned" THEN @ + 1 ELSE @]

\* the dispatch of handleMessage ends (no handler, the handler returned, or the
\* catch logged what it raised) and messageService.acknowledge(message) runs
EndDispatch(call, outcome) == [call EXCEPT !.outcome = outcome, !.acks = @ + 1]

\* a handleMessage invocation whose handler is suspended at its first publish
NewCall(content, pubs) ==
  [content |-> content, pubs |-> pubs, awaiting |-> IF pubs = << >> THEN 0 ELSE 1,
   outcome |-> "running", acks |-> 0]

\* the invocations whose message was acknowledged
AckedIn(cs) == { j \in 1..Len(cs) : cs[j].acks > 0 }

InFlight == { i \in 1..Len(calls) : calls[i].outcome = "running" }

\* the registry after registerCoreServices, and its keys in insertion order
registerCoreServices ==
  ( inventoryServiceContract.name :> inventoryServiceContract )
  @@ ( paymentServiceContract.name :> paymentServiceContract )
  @@ ( orderServiceContract.name :> orderServiceContract )

registeredNames ==
  << inventoryServiceContract.name, paymentServiceContract.name, orderServiceContract.name >>

\* registerCoreServices and setupMessageService of startServer, with a transport
\* on which initialize, createQueue and subscribe succeed
startServer ==
  /\ ~subscribed
  /\ serviceRegistry' = registerCoreServices
  /\ subscribed' = TRUE
  /\ UNCHANGED << sagaStore, calls, published, acked >>
  /\ UNCHANGED notOrchVars

\* the transport callback starts handleMessage(content, message); the step runs
\* up to the first suspension: the handler's saga update and its first publish call
handleMessageWithin(content, limit) ==
  /\ subscribed
  /\ Len(calls) < limit
  /\ Cardinality(InFlight) < MaxInFlight
  /\ LET i == Len(calls) + 1 IN
     IF findEventHandler(content.type) = Undefined
     THEN /\ calls' = Append(calls, EndDispatch(NewCall(content, << >>), "nohandler"))
          /\ UNCHANGED << sagaStore, published >>
     ELSE LET r == RunHandler(sagaStore, serviceRegistry, content) IN
          /\ sagaStore' = r.store
          /\ IF r.pubs = << >>
             THEN /\ calls' = Append(calls, EndDispatch(NewCall(content, r.pubs), "returned"))
                  /\ UNCHANGED published
             ELSE /\ calls' = Append(calls, NewCall(content, r.pubs))
                  /\ published' = Append(published, r.pubs[1] @@ [by |-> i])
  /\ acked' = AckedIn(calls')
  /\ UNCHANGED << serviceRegistry, subscribed >>
  /\ UNCHANGED notOrchVars

handleMessage(content) == handleMessageWithin(content, MaxEvents)

\* the publish that call i awaits returns: the handler goes on to its next
\* publish, or returns and handleMessage acknowledges the message
PublishReturns(i) ==
  /\ i \in InFlight
  /\ LET c == calls[i] IN
     IF c.awaiting < Len(c.pubs)
     THEN /\ calls' = [calls EXCEPT ![i].awaiting = @ + 1]
          /\ published' = Append(published, c.pubs[c.awaiting + 1] @@ [by |-> i])
     ELSE /\ calls' = [calls EXCEPT ![i] = EndDispatch(c, "returned")]
          /\ UNCHANGED published
  /\ acked' = AckedIn(calls')
  /\ UNCHANGED << serviceRegistry, subscribed, sagaStore >>
  /\ UNCHANGED notOrchVars

\* a handler that goes on to its remaining publishes after one of them threw
pubsAfterThrow_goOn(c) == SubSeq(c.pubs, c.awaiting + 1, Len(c.pubs))

\* the publishes a handler still calls after the publish it awaits threw: the
\* exception leaves the handler, so none
pubsAfterThrow(c) == << >>

\* the publish that call i awaits throws: handleMessage catches the error,
\* logs it and acknowledges the message
PublishRaises(i) ==
  /\ i \in InFlight
  /\ calls' = [calls EXCEPT ![i] = EndDispatch(calls[i], "raised")]
  /\ published' = published \o [k \in 1..Len(pubsAfterThrow(calls[i])) |->
                                  pubsAfterThrow(calls[i])[k] @@ [by |-> i]]
  /\ acked' = AckedIn(calls')
  /\ UNCHANGED << serviceRegistry, subscribed, sagaStore >>
  /\ UNCHANGED notOrchVars

(* ------------------------- TCP transport: data ------------------------- *)
\* the channels the process publishes to, and the handler functions that the
\* owner of a channel may pass to subscribe
Channels == {"inventory_service_queue", "payment_service_queue"}
HandlerIds == {"h1", "h2"}

\* the handler function the owners of the channels subscribe with in SpecTcp
SubscribedHandlers == {"h1"}

\* the name under which the publishing process initialises its transport
OwnServiceName == "orchestrator"

portBase == 4000

portMapping ==
  ("orchestrator" :> 0) @@ ("order-service" :> 1) @@ ("inventory-service" :> 2)
    @@ ("payment-service" :> 3)

\* channel.replace('_queue', '').replace(/_/g, '-') on the channel names in use
ServiceNameOf(channel) ==
  CASE channel = "orchestrator_queue"      -> "orchestrator"
    [] channel = "order_service_queue"     -> "order-service"
    [] channel = "inventory_service_queue" -> "inventory-service"
    [] channel = "payment_service_queue"   -> "payment-service"
    [] channel = "shipping_service_queue"  -> "shipping-service"
    [] channel = "billing_queue"           -> "billing"

\* registerService without the table of the well-known names
registerService_countOffset(reg, serviceName) ==
  SetProp(reg, serviceName, portBase + 10 + Cardinality(DOMAIN reg))

registerService(reg, serviceName) ==
  IF serviceName \notin DOMAIN portMapping
  THEN SetProp(reg, serviceName, portBase + 10 + Cardinality(DOMAIN reg))
  ELSE SetProp(reg, serviceName, portBase + portMapping[serviceName])

\* the registry after getPortForChannel(channel); the port is its entry for the name
getPortForChannel(reg, channel) ==
  IF ServiceNameOf(channel) \notin DOMAIN reg
  THEN registerService(reg, ServiceNameOf(channel))
  ELSE reg

DeleteProp(obj, f) == [k \in DOMAIN obj \ {f} |-> obj[k]]

\* JSON.stringify(message) as the text that goes on the stream, in two pieces,
\* so that a read can end inside a message
JSONstringify(m) == << [part |-> "head", of |-> m], [part |-> "tail", of |-> m] >>

\* JSON.parse(chunk) succeeds exactly when the chunk is the text of one message
JSONparses(chunk) ==
  /\ Len(chunk) = 2
  /\ chunk[1].part = "head"
  /\ chunk[2].part = "tail"
  /\ chunk[1].of = chunk[2].of

JSONparse(chunk) == chunk[1].of

\* the text of the messages of a queue, written one after the other
RECURSIVE WriteAll(_)
WriteAll(q) == IF q = << >> THEN << >> ELSE JSONstringify(Head(q)) \o WriteAll(Tail(q))

QueueOf(queue, channel) == IF channel \in DOMAIN queue THEN queue[channel] ELSE << >>

\* the catch of publish that rethrows instead of queueing
publishCatch_rethrow(queue, channel, message) ==
  [queue |-> queue, outcome |-> "raised"]

\* the catch of publish around connectToServer: queue the message and return
publishCatch(queue, channel, message) ==
  [queue   |-> SetProp(queue, channel, Append(QueueOf(queue, channel), message)),
   outcome |-> "queued"]

\* a createServer that makes and binds a server on every call
createServer_always(srv, channel, handler, port) ==
  SetProp(srv, channel,
          [handler |-> handler, listening |-> TRUE, port |-> port,
           endpoints |-> IF channel \in DOMAIN srv THEN srv[channel].endpoints + 1 ELSE 1])

\* this.servers after createServer(channel, handler): a server is made, bound to
\* the port and recorded only when none is recorded for the channel; endpoints
\* counts the servers the instance has made for the channel
createServer(srv, channel, handler, port) ==
  IF channel \notin DOMAIN srv
  THEN SetProp(srv, channel,
               [handler |-> handler, listening |-> TRUE, port |-> port, endpoints |-> 1])
  ELSE srv

\* a flush that leaves the messages it has written on the queue
QueueAfterFlush_kept(queue, channel) == queue

\* messageQueue after the while loop of the connect callback has shifted every
\* message of the channel off its queue
QueueAfterFlush(queue, channel) ==
  IF channel \in DOMAIN queue THEN [queue EXCEPT ![channel] = << >>] ELSE queue

\* the connect callback that lets the awaiting publish write before the flush
SentOnConnect_newFirst(queued, message) == << message >> \o queued

\* what a connection carries once connectToServer has resolved and the awaiting
\* publish has written: the queued messages, oldest first, then the new message
SentOnConnect(queued, message) == queued \o << message >>

(* ------------------------ TCP transport: actions ----------------------- *)
Listening(port) ==
  \E ch \in DOMAIN servers : servers[ch].port = port /\ servers[ch].listening

\* the publish call that awaits the connection of socket s
AwaitingCall(s) ==
  CHOOSE c \in 1..Len(pubCalls) : pubCalls[c].sock = s /\ pubCalls[c].outcome = "awaiting"

\* initialize(serviceName) of the publishing process
tcpInitialize ==
  /\ OwnServiceName \notin DOMAIN tcpRegistry
  /\ tcpRegistry' = registerService(tcpRegistry, OwnServiceName)
  /\ UNCHANGED << clients, messageQueue, servers, handlers, socks, pubCalls,
                  delivered, queuedLog >>
  /\ UNCHANGED notTcpVars

\* subscribe(channel, handler) in the process that owns the channel: createServer
tcpSubscribe(channel, handler) ==
  /\ handlers' = SetProp(handlers, channel, handler)
  /\ servers' = createServer(servers, channel, handler,
                             getPortForChannel(EmptyMap, channel)[ServiceNameOf(channel)])
  /\ UNCHANGED << tcpRegistry, clients, messageQueue, socks, pubCalls, delivered, queuedLog >>
  /\ UNCHANGED notTcpVars

\* publish(channel, message) up to its first suspension: with a recorded
\* connection it writes and returns, otherwise connectToServer opens a socket
tcpPublish(channel) ==
  /\ OwnServiceName \in DOMAIN tcpRegistry
  /\ Len(pubCalls) < MaxPublish
  /\ LET message == Len(pubCalls) + 1 IN
     IF channel \in DOMAIN clients
     THEN /\ socks' = [socks EXCEPT
                         ![clients[channel]].wire =
                            IF socks[clients[channel]].state = "open"
                            THEN @ \o JSONstringify(message) ELSE @,
                         ![clients[channel]].sent = Append(@, message)]
          /\ pubCalls' = Append(pubCalls, [channel |-> channel, message |-> message,
                                           sock |-> clients[channel], outcome |-> "sent"])
          /\ UNCHANGED tcpRegistry
     ELSE /\ tcpRegistry' = getPortForChannel(tcpRegistry, channel)
          /\ socks' = Append(socks, [channel |-> channel,
                                     port |-> tcpRegistry'[ServiceNameOf(channel)],
                                     state |-> "connecting", wire |-> << >>, sent |-> << >>,
                                     acks |-> << >>])
          /\ pubCalls' = Append(pubCalls, [channel |-> channel, message |-> message,
                                           sock |-> Len(socks) + 1, outcome |-> "awaiting"])
  /\ UNCHANGED << clients, messageQueue, servers, handlers, delivered, queuedLog >>
  /\ UNCHANGED notTcpVars

\* connect callback of socket s: record the connection, write the queued
\* messages, resolve; the awaiting publish then writes its own message
connectCallback(s) ==
  /\ s \in 1..Len(socks)
  /\ socks[s].state = "connecting"
  /\ Listening(socks[s].port)
  /\ LET channel == socks[s].channel
         c == AwaitingCall(s)
         queued == QueueOf(messageQueue, channel)
     IN /\ clients' = SetProp(clients, channel, s)
        /\ messageQueue' = QueueAfterFlush(messageQueue, channel)
        /\ socks' = [socks EXCEPT
                       ![s].state = "open",
                       ![s].wire = WriteAll(SentOnConnect(queued, pubCalls[c].message)),
                       ![s].sent = SentOnConnect(queued, pubCalls[c].message)]
        /\ pubCalls' = [pubCalls EXCEPT ![c].outcome = "sent"]
  /\ UNCHANGED << tcpRegistry, servers, handlers, delivered, queuedLog >>
  /\ UNCHANGED notTcpVars

\* error callback of socket s whose connection attempt fails, followed by its
\* close callback: reject only when no connection is recorded for the channel
\* (the awaiting publish then queues its message), then delete the record
errorCallback(s) ==
  /\ s \in 1..Len(socks)
  /\ socks[s].state = "connecting"
  /\ ~ Listening(socks[s].port)
  /\ LET channel == socks[s].channel
         c == AwaitingCall(s)
         r == publishCatch(messageQueue, channel, pubCalls[c].message)
     IN IF channel \notin DOMAIN clients
        THEN /\ messageQueue' = r.queue
             /\ pubCalls' = [pubCalls EXCEPT ![c].outcome = r.outcome]
             /\ queuedLog' = [queuedLog EXCEPT ![channel] =
                                IF r.outcome = "queued" THEN Append(@, pubCalls[c].message) ELSE @]
             /\ UNCHANGED clients
        ELSE /\ clients' = DeleteProp(clients, channel)
             /\ UNCHANGED << messageQueue, pubCalls, queuedLog >>
  /\ socks' = [socks EXCEPT ![s].state = "closed"]
  /\ UNCHANGED << tcpRegistry, servers, handlers, delivered >>
  /\ UNCHANGED notTcpVars

\* data callback of the server side of socket s for a read of the next n
\* pieces of text: parse the chunk as one message and call the handler
dataCallback(s, n) ==
  /\ s \in 1..Len(socks)
  /\ socks[s].state \in {"open", "ending"}
  /\ n \in 1..Len(socks[s].wire)
  /\ LET channel == socks[s].channel
         chunk == SubSeq(socks[s].wire, 1, n)
     IN /\ socks' = [socks EXCEPT ![s].wire = SubSeq(@, n + 1, Len(@))]
        /\ delivered' =
             IF JSONparses(chunk)
             THEN [delivered EXCEPT ![channel] =
                     Append(@, [message |-> JSONparse(chunk), sock |-> s, acked |-> FALSE,
                                handler |-> IF servers[channel].handler # Undefined
                                            THEN servers[channel].handler
                                            ELSE GetProp(handlers, channel)])]
             ELSE delivered
  /\ UNCHANGED << tcpRegistry, clients, messageQueue, servers, handlers, pubCalls, queuedLog >>
  /\ UNCHANGED notTcpVars

\* close callback of a connected socket s (the peer ended or reset the stream):
\* the record of the channel is deleted; text not yet read is lost
closeCallback(s) ==
  /\ s \in 1..Len(socks)
  /\ socks[s].state \in {"open", "reset", "ending"}
  /\ socks' = [socks EXCEPT ![s].state = "closed", ![s].wire = << >>, ![s].acks = << >>]
  /\ clients' = DeleteProp(clients, socks[s].channel)
  /\ UNCHANGED << tcpRegistry, messageQueue, servers, handlers, pubCalls, delivered, queuedLog >>
  /\ UNCHANGED notTcpVars

\* close() in the process that owns the channel: its server stops accepting
\* connections; the streams already accepted stay open and the server stays
\* recorded, so a later subscribe does not listen again
tcpClose(channel) ==
  /\ channel \in DOMAIN servers
  /\ servers[channel].listening
  /\ servers' = [servers EXCEPT ![channel].listening = FALSE]
  /\ UNCHANGED << tcpRegistry, clients, messageQueue, handlers, socks, pubCalls,
                  delivered, queuedLog >>
  /\ UNCHANGED notTcpVars

\* the sockets after clients[channel].end() for every recorded channel: the
\* stream is half-closed, what was written before can still be read by the peer
endClients(sk, cl) ==
  [s \in 1..Len(sk) |->
     IF (\E ch \in DOMAIN cl : cl[ch] = s) /\ sk[s].state = "open"
     THEN [sk[s] EXCEPT !.state = "ending"]
     ELSE sk[s]]

\* close() in the publishing process: every recorded connection is ended;
\* this.clients is left as it is, the close callbacks delete the records later
tcpCloseClients ==
  /\ OwnServiceName \in DOMAIN tcpRegistry
  /\ \E ch \in DOMAIN clients : socks[clients[ch]].state = "open"
  /\ socks' = endClients(socks, clients)
  /\ UNCHANGED << tcpRegistry, clients, messageQueue, servers, handlers, pubCalls,
                  delivered, queuedLog >>
  /\ UNCHANGED notTcpVars

(* ------------------------ TCP transport: ports ------------------------- *)
\* the channel names passed to getPortForChannel and the service names a
\* transport is initialised with in SpecPorts
PortChannels ==
  { "orchestrator_queue", "order_service_queue", "inventory_service_queue",
    "payment_service_queue", "shipping_service_queue", "billing_queue" }
OwnNames == { "orchestrator", "shipping-service" }

\* transport.initialize(serviceName): registerService(serviceName); the facade
\* calls it again on the same transport after close() reset its initialized flag
portsInitialize ==
  /\ Len(portLog) < MaxPortCalls
  /\ tcpRegistry' = registerService(tcpRegistry, ownName)
  /\ portLog' = Append(portLog, [call |-> "initialize", name |-> ownName,
                                 port |-> tcpRegistry'[ownName]])
  /\ UNCHANGED << clients, messageQueue, servers, handlers, socks, pubCalls,
                  delivered, queuedLog, ownName >>
  /\ UNCHANGED << orchVars, facadeVars, svcVars >>

\* getPortForChannel(channel), as called by createServer and connectToServer
portsGetPortForChannel(channel) ==
  /\ Len(portLog) < MaxPortCalls
  /\ tcpRegistry' = getPortForChannel(tcpRegistry, channel)
  /\ portLog' = Append(portLog, [call |-> "getPortForChannel", name |-> ServiceNameOf(channel),
                                 port |-> tcpRegistry'[ServiceNameOf(channel)]])
  /\ UNCHANGED << clients, messageQueue, servers, handlers, socks, pubCalls,
                  delivered, queuedLog, ownName >>
  /\ UNCHANGED << orchVars, facadeVars, svcVars >>

\* the handler of the k-th delivery on the channel acknowledges its message:
\* wrappedMessage.ack() writes an ACK frame on the stream the message came in on
acknowledge(channel, k) ==
  /\ k \in 1..Len(delivered[channel])
  /\ ~ delivered[channel][k].acked
  /\ delivered' = [delivered EXCEPT ![channel][k].acked = TRUE]
  /\ socks' = [socks EXCEPT ![delivered[channel][k].sock].acks =
                 IF socks[delivered[channel][k].sock].state = "open"
                 THEN @ \o JSONstringify([type |-> "ACK", messageId |-> k])
                 ELSE @]
  /\ UNCHANGED << tcpRegistry, clients, messageQueue, servers, handlers, pubCalls, queuedLog >>
  /\ UNCHANGED notTcpVars

\* data callback of the publishing side of socket s for a read of the next n
\* pieces of text: the chunk is parsed and an ACK is logged, nothing else
clientDataCallback(s, n) ==
  /\ s \in 1..Len(socks)
  /\ socks[s].state = "open"
  /\ n \in 1..Len(socks[s].acks)
  /\ socks' = [socks EXCEPT ![s].acks = SubSeq(@, n + 1, Len(@))]
  /\ UNCHANGED << tcpRegistry, clients, messageQueue, servers, handlers, pubCalls,
                  delivered, queuedLog >>
  /\ UNCHANGED notTcpVars

\* the process that owns the channel ends and a new one starts: the new
\* process has a fresh transport, without server or handler for the channel;
\* the streams the old process had accepted are reset, what it had not read is
\* lost, and the publishing process learns of it in its close callbacks
ownerRestart(channel) ==
  /\ channel \in DOMAIN servers
  /\ servers' = DeleteProp(servers, channel)
  /\ handlers' = DeleteProp(handlers, channel)
  /\ socks' = [s \in 1..Len(socks) |->
                IF socks[s].channel = channel /\ socks[s].state = "open"
                THEN [socks[s] EXCEPT !.state = "reset", !.wire = << >>, !.acks = << >>]
                ELSE socks[s]]
  /\ UNCHANGED << tcpRegistry, clients, messageQueue, pubCalls, delivered, queuedLog >>
  /\ UNCHANGED notTcpVars

(* --------------------------- messaging facade -------------------------- *)
\* values of TRANSPORT_TYPE in the environment of the process
EnvTransportTypes == { Undefined, "", "rabbitmq", "RABBITMQ", "tcp", "TCP", "Tcp", "kafka" }

toLowerCase(str) ==
  CASE str \in {"TCP", "Tcp"} -> "tcp"
    [] str = "RABBITMQ"        -> "rabbitmq"
    [] OTHER                   -> str

\* the queue names and the handler the callers of the facade pass in SpecFacade
FacadeQueues == { "orchestrator_queue", "inventory_service_queue" }
FacadeHandler == "handleMessage"

\* the transport objects after construction; initializeCalls and
\* initializeFailures count the invocations of initialize and those that threw
NewRabbitMQTransport ==
  [class |-> "RabbitMQTransport", connection |-> FALSE, declared |-> {}, consumers |-> {},
   initializeCalls |-> 0, initializeFailures |-> 0]

NewTCPTransport ==
  [class |-> "TCPTransport", servers |-> EmptyMap, clients |-> EmptyMap,
   handlers |-> EmptyMap, messageQueue |-> EmptyMap, serviceRegistry |-> EmptyMap,
   initializeCalls |-> 0, initializeFailures |-> 0]

\* a createTransport that compares the configured kind as it is written
createTransport_caseSensitive(e) ==
  LET transportType == IF e.TRANSPORT_TYPE \in {Undefined, ""} THEN "rabbitmq"
                       ELSE e.TRANSPORT_TYPE
  IN CASE transportType = "rabbitmq" -> NewRabbitMQTransport
       [] transportType = "tcp"      -> NewTCPTransport
       [] OTHER                      -> NewRabbitMQTransport

\* TransportFactory.createTransport under the environment e
createTransport(e) ==
  LET transportType == IF e.TRANSPORT_TYPE \in {Undefined, ""} THEN "rabbitmq"
                       ELSE e.TRANSPORT_TYPE
  IN CASE toLowerCase(transportType) = "rabbitmq" -> NewRabbitMQTransport
       [] toLowerCase(transportType) = "tcp"      -> NewTCPTransport
       [] OTHER                                   -> NewRabbitMQTransport

\* new MessageService(serviceName)
NewMessageService(serviceName, e) ==
  [serviceName |-> serviceName, transport |-> createTransport(e), initialized |-> FALSE]

Returned(ms) == [ms |-> ms, outcome |-> "returned"]
Raised(ms) == [ms |-> ms, outcome |-> "raised"]

\* transport.initialize(serviceName) up to its first suspension: TCPTransport
\* registers the service, RabbitMQTransport has started amqp.connect
transportInitializeCalled(ms) ==
  IF ms.transport.class = "TCPTransport"
  THEN [ms EXCEPT !.transport.serviceRegistry = registerService(@, ms.serviceName),
                  !.transport.initializeCalls = @ + 1]
  ELSE [ms EXCEPT !.transport.initializeCalls = @ + 1]

\* the promise of transport.initialize settles
transportInitializeSettles(ms, e) ==
  IF ms.transport.class = "TCPTransport"
  THEN Returned(ms)
  ELSE IF e.brokerUp
       THEN Returned([ms EXCEPT !.transport.connection = TRUE])
       ELSE Raised([ms EXCEPT !.transport.initializeFailures = @ + 1])

\* transport.initialize(serviceName), awaited with nothing running in between
transportInitialize(ms, e) == transportInitializeSettles(transportInitializeCalled(ms), e)

\* an initialize that sets the initialized flag before it awaits the transport
msInitialize_flagFirst(ms, e) ==
  IF ms.initialized
  THEN Returned(ms)
  ELSE LET r == transportInitialize(ms, e)
       IN IF r.outcome = "raised" THEN Raised([r.ms EXCEPT !.initialized = TRUE])
          ELSE Returned([r.ms EXCEPT !.initialized = TRUE])

\* MessageService.initialize: the flag is set after the awaited
\* transport.initialize returned; its error is logged and thrown again
msInitialize(ms, e) ==
  IF ms.initialized
  THEN Returned(ms)
  ELSE LET r == transportInitialize(ms, e)
       IN IF r.outcome = "raised" THEN r ELSE Returned([r.ms EXCEPT !.initialized = TRUE])

ensureInitialized(ms, e) == IF ~ ms.initialized THEN msInitialize(ms, e) ELSE Returned(ms)

\* transport.createQueue(queueName): RabbitMQTransport declares the queue,
\* TCPTransport inherits the method of TransportInterface, which throws
transportCreateQueue(ms, queueName) ==
  IF ms.transport.class = "TCPTransport"
  THEN Raised(ms)
  ELSE Returned([ms EXCEPT !.transport.declared = @ \cup {queueName}])

msCreateQueue(ms, e, queueName) ==
  LET r == ensureInitialized(ms, e)
  IN IF r.outcome = "raised" THEN r ELSE transportCreateQueue(r.ms, queueName)

\* transport.subscribe(queueName, handler)
transportSubscribe(ms, queueName, handler) ==
  IF ms.transport.class = "TCPTransport"
  THEN LET reg == getPortForChannel(ms.transport.serviceRegistry, queueName)
           t == [ms.transport EXCEPT !.serviceRegistry = reg,
                                     !.handlers = SetProp(@, queueName, handler)]
       IN Returned([ms EXCEPT !.transport =
                      [t EXCEPT !.servers = createServer(@, queueName, handler,
                                                         reg[ServiceNameOf(queueName)])]])
  ELSE LET r == transportCreateQueue(ms, queueName)
       IN Returned([r.ms EXCEPT !.transport.consumers = @ \cup {queueName}])

msSubscribe(ms, e, queueName, handler) ==
  LET r == ensureInitialized(ms, e)
  IN IF r.outcome = "raised" THEN r ELSE transportSubscribe(r.ms, queueName, handler)

\* transport.publish(queueName, message) as far as the facade is concerned:
\* TCPTransport.publish resolves the port of the channel and returns (what it
\* does with connections and its queue is tcpPublish); RabbitMQTransport.publish
\* needs the channel that initialize made
transportPublish(ms, queueName) ==
  IF ms.transport.class = "TCPTransport"
  THEN Returned([ms EXCEPT !.transport.serviceRegistry = getPortForChannel(@, queueName)])
  ELSE IF ms.transport.connection THEN Returned(ms) ELSE Raised(ms)

msPublish(ms, e, queueName) ==
  LET r == ensureInitialized(ms, e)
  IN IF r.outcome = "raised" THEN r ELSE transportPublish(r.ms, queueName)

\* one call of a method of the facade
Invoke(ms, e, call) ==
  CASE call.op = "initialize"  -> msInitialize(ms, e)
    [] call.op = "createQueue" -> msCreateQueue(ms, e, call.arg)
    [] call.op = "subscribe"   -> msSubscribe(ms, e, call.arg, FacadeHandler)
    [] call.op = "publish"     -> msPublish(ms, e, call.arg)

\* the awaited calls of setupMessageService, in order
setupCalls ==
  << [op |-> "initialize", arg |-> Undefined],
     [op |-> "createQueue", arg |-> "orchestrator_queue"] >>
  \o [k \in 1..Len(registeredNames) |->
        [op |-> "createQueue", arg |-> registerCoreServices[registeredNames[k]].queueName]]
  \o << [op |-> "subscribe", arg |-> "orchestrator_queue"] >>

\* the calls one after the other, up to and including the first that raises
RECURSIVE RunCalls(_, _, _)
RunCalls(ms, e, todo) ==
  IF todo = << >>
  THEN [ms |-> ms, log |-> << >>, outcome |-> "returned"]
  ELSE LET r == Invoke(ms, e, Head(todo))
           entry == Head(todo) @@ [outcome |-> r.outcome, by |-> "setupMessageService"]
       IN IF r.outcome = "raised"
          THEN [ms |-> r.ms, log |-> << entry >>, outcome |-> "raised"]
          ELSE LET rest == RunCalls(r.ms, e, Tail(todo))
               IN [ms |-> rest.ms, log |-> << entry >> \o rest.log, outcome |-> rest.outcome]

\* a caller in the process calls one method of the facade
facadeCall(call) ==
  /\ setup # "exited"
  /\ Len(SelectSeq(msCalls, LAMBDA c : c.by = "caller")) < MaxFacadeCalls
  /\ LET r == Invoke(messageService, env, call)
     IN /\ messageService' = r.ms
        /\ msCalls' = Append(msCalls, call @@ [outcome |-> r.outcome, by |-> "caller"])
  /\ UNCHANGED << env, setup >>
  /\ UNCHANGED notFacadeVars

\* a caller calls a method of the facade without waiting for the calls made
\* before: the step runs the call up to its first suspension, which for a
\* facade that is not initialised is the await of transport.initialize
facadeCallStarts(call) ==
  /\ setup # "exited"
  /\ Len(msCalls) < MaxFacadeCalls
  /\ IF messageService.initialized
     THEN LET r == Invoke(messageService, env, call)
          IN /\ messageService' = r.ms
             /\ msCalls' = Append(msCalls, call @@ [outcome |-> r.outcome, by |-> "caller"])
     ELSE /\ messageService' = transportInitializeCalled(messageService)
          /\ msCalls' = Append(msCalls, call @@ [outcome |-> "initializing", by |-> "caller"])
  /\ UNCHANGED << env, setup >>
  /\ UNCHANGED notFacadeVars

\* the transport.initialize that call k awaits settles: initialize sets
\* this.initialized, or rethrows; then the call goes on to the transport
initializeSettles(k) ==
  /\ k \in 1..Len(msCalls)
  /\ msCalls[k].outcome = "initializing"
  /\ LET r == transportInitializeSettles(messageService, env)
         call == [op |-> msCalls[k].op, arg |-> msCalls[k].arg]
         after == IF r.outcome = "raised"
                  THEN r
                  ELSE Invoke([r.ms EXCEPT !.initialized = TRUE], env, call)
     IN /\ messageService' = after.ms
        /\ msCalls' = [msCalls EXCEPT ![k].outcome = after.outcome]
  /\ UNCHANGED << env, setup >>
  /\ UNCHANGED notFacadeVars

\* a catch of setupMessageService that logs the error and lets the process live
SetupCatch_logOnly(outcome) == "ready"

\* where setupMessageService ends: its catch calls process.exit(1)
SetupCatch(outcome) == IF outcome = "raised" THEN "exited" ELSE "ready"

\* handleMessage is subscribed to orchestrator_queue on the transport
SubscribedOn(ms) ==
  IF ms.transport.class = "TCPTransport"
  THEN "orchestrator_queue" \in DOMAIN ms.transport.servers
  ELSE "orchestrator_queue" \in ms.transport.consumers

\* setupMessageService: the awaited calls in order; the catch ends the process
setupMessageService ==
  /\ setup = "notStarted"
  /\ LET r == RunCalls(messageService, env, setupCalls)
     IN /\ messageService' = r.ms
        /\ msCalls' = msCalls \o r.log
        /\ setup' = SetupCatch(r.outcome)
  /\ UNCHANGED env
  /\ UNCHANGED notFacadeVars

\* startServer over the facade: registerCoreServices, then setupMessageService;
\* the coordinator receives events when subscribe ran and the process lives
startServerOverFacade ==
  /\ setup = "notStarted"
  /\ ~ subscribed
  /\ serviceRegistry' = registerCoreServices
  /\ LET r == RunCalls(messageService, env, setupCalls)
     IN /\ messageService' = r.ms
        /\ msCalls' = msCalls \o r.log
        /\ setup' = SetupCatch(r.outcome)
        /\ subscribed' = ( setup' # "exited" /\ SubscribedOn(r.ms) )
  /\ UNCHANGED << sagaStore, calls, published, acked, env >>
  /\ UNCHANGED << tcpVars, portVars, svcVars >>

\* the broker becomes reachable
brokerStarts ==
  /\ ~ env.brokerUp
  /\ setup # "exited"
  /\ env' = [env EXCEPT !.brokerUp = TRUE]
  /\ UNCHANGED << messageService, msCalls, setup >>
  /\ UNCHANGED notFacadeVars

(* ----------------------------- the services ---------------------------- *)
\* orders posted to the order service
MaxOrders == 1

\* events handled by the inventory service on its own
MaxInventoryEvents == 4

\* every saga of an order takes three inbound events of the coordinator
MaxSagaEvents == 3 * MaxOrders

ServiceQueues ==
  { inventoryServiceContract.queueName, paymentServiceContract.queueName,
    orderServiceContract.queueName }

\* inventory-service: the stock it starts with
inventoryItemsAtStart ==
  ( "item-1" :> [id |-> "item-1", stock |-> 10] )
  @@ ( "item-2" :> [id |-> "item-2", stock |-> 5] )
  @@ ( "item-3" :> [id |-> "item-3", stock |-> 0] )

\* payment-service: the credit limit of the customers it knows
customerCreditLimits ==
  ( "customer-1" :> 1000 ) @@ ( "customer-2" :> 5000 ) @@ ( "customer-3" :> 100 )

\* bodies of POST /orders: an order that goes through, one over the credit
\* limit, one of an unknown customer, one for an item out of stock, and one
\* that the validation rejects
OrderBodies ==
  { [customerId |-> "customer-1",
     items |-> << [id |-> "item-1", quantity |-> 2, price |-> 100] >>],
    [customerId |-> "customer-3",
     items |-> << [id |-> "item-1", quantity |-> 2, price |-> 100] >>],
    [customerId |-> "customer-9",
     items |-> << [id |-> "item-1", quantity |-> 2, price |-> 100] >>],
    [customerId |-> "customer-1",
     items |-> << [id |-> "item-3", quantity |-> 1, price |-> 50] >>],
    [customerId |-> "customer-1", items |-> << >>] }

\* items.reduce((total, item) => total + (item.price * item.quantity), 0)
totalAmountOf(items) ==
  LET RECURSIVE from(_)
      from(k) == IF k > Len(items) THEN 0
                 ELSE items[k].price * items[k].quantity + from(k + 1)
  IN from(1)

\* the messages published to a service queue, in publish order
serviceQueue(q) == SelectSeq(published, LAMBDA p : p.queueName = q)

\* result of a service handler: its stores and what it published to the coordinator
(* order-service *)
handleOrderCompleted(ords, content) ==
  LET d == content.data IN
  IF d.orderId \notin DOMAIN ords THEN ords
  ELSE SetProp(ords, d.orderId,
               SetProp(SetProp(ords[d.orderId], "status", "COMPLETED"),
                       "transactionId", d.transactionId))

\* an order service that marks a cancelled order COMPLETED
handleOrderCancelled_completed(ords, content) ==
  LET d == content.data IN
  IF d.orderId \notin DOMAIN ords THEN ords
  ELSE SetProp(ords, d.orderId,
               SetProp(SetProp(ords[d.orderId], "status", "COMPLETED"),
                       "cancellationReason", d.reason))

handleOrderCancelled(ords, content) ==
  LET d == content.data
      cancelled == SetProp(SetProp(ords[d.orderId], "status", "CANCELLED"),
                           "cancellationReason", d.reason)
  IN IF d.orderId \notin DOMAIN ords THEN ords
     ELSE SetProp(ords, d.orderId,
                  IF "insufficientItems" \in DOMAIN d /\ d.insufficientItems # << >>
                  THEN SetProp(cancelled, "insufficientItems", d.insufficientItems)
                  ELSE cancelled)

(* inventory-service *)
\* the items of a request that are unknown or short of stock
insufficientItemsOf(inv, items) ==
  LET RECURSIVE from(_)
      from(k) ==
        IF k > Len(items) THEN << >>
        ELSE LET item == items[k] IN
             IF item.id \notin DOMAIN inv
             THEN << [id |-> item.id, requested |-> item.quantity, available |-> 0] >>
                    \o from(k + 1)
             ELSE IF inv[item.id].stock < item.quantity
                  THEN << [id |-> item.id, requested |-> item.quantity,
                           available |-> inv[item.id].stock] >> \o from(k + 1)
                  ELSE from(k + 1)
  IN from(1)

handleInventoryCheckRequest(inv, res, content) ==
  LET d == content.data
      insufficientItems == insufficientItemsOf(inv, d.items)
      reservationId == "reservation-" \o d.orderId
  IN IF insufficientItems = << >>
     THEN [inv |-> inv,
           res |-> SetProp(res, reservationId,
                           [orderId |-> d.orderId, items |-> d.items, status |-> "pending"]),
           pubs |-> << [type |-> INVENTORY_CHECK_SUCCEEDED,
                        data |-> [orderId |-> d.orderId, reservationId |-> reservationId]] >>]
     ELSE [inv |-> inv, res |-> res,
           pubs |-> << [type |-> INVENTORY_CHECK_FAILED,
                        data |-> [orderId |-> d.orderId, reason |-> "Insufficient inventory",
                                  insufficientItems |-> insufficientItems]] >>]

\* inventoryItems[item.id].stock -= item.quantity, for every item of a reservation
stockAfter(inv, items) ==
  LET RECURSIVE from(_, _)
      from(cur, k) ==
        IF k > Len(items) THEN cur
        ELSE from([cur EXCEPT ![items[k].id].stock = @ - items[k].quantity], k + 1)
  IN from(inv, 1)

handleInventoryReservation(inv, res, content) ==
  LET d == content.data IN
  IF d.reservationId \notin DOMAIN res
  THEN [inv |-> inv, res |-> res, pubs |-> << >>]
  ELSE [inv |-> stockAfter(inv, res[d.reservationId].items),
        res |-> [res EXCEPT ![d.reservationId].status = "confirmed"],
        pubs |-> << >>]

handleInventoryRelease(inv, res, content) ==
  LET d == content.data IN
  IF d.reservationId \notin DOMAIN res
  THEN [inv |-> inv, res |-> res, pubs |-> << >>]
  ELSE [inv |-> inv,
        res |-> [r \in DOMAIN res \ {d.reservationId} |-> res[r]],
        pubs |-> << >>]

(* payment-service *)
\* uuidv4(): an id no payment has yet
transactionIdAfter(pay) == "T" \o ToString(Cardinality(DOMAIN pay) + 1)

\* a payment service that does not answer a request of an unknown customer
handlePaymentRequest_silent(pay, content) ==
  LET d == content.data
      customerCreditLimit == customerCreditLimits[d.customerId]
      transactionId == transactionIdAfter(pay)
  IN IF d.customerId \notin DOMAIN customerCreditLimits \/ customerCreditLimit = 0
     THEN [pay |-> pay, pubs |-> << >>]
     ELSE IF d.amount > customerCreditLimit
          THEN [pay |-> pay,
                pubs |-> << [type |-> PAYMENT_FAILED,
                             data |-> [orderId |-> d.orderId, reason |-> "Fondos insuficientes",
                                       details |-> [required |-> d.amount,
                                                    available |-> customerCreditLimit]]] >>]
          ELSE [pay |-> SetProp(pay, transactionId,
                                [id |-> transactionId, orderId |-> d.orderId,
                                 customerId |-> d.customerId, amount |-> d.amount,
                                 status |-> "COMPLETED"]),
                pubs |-> << [type |-> PAYMENT_SUCCEEDED,
                             data |-> [orderId |-> d.orderId, transactionId |-> transactionId,
                                       amount |-> d.amount]] >>]

handlePaymentRequest(pay, content) ==
  LET d == content.data
      customerCreditLimit == customerCreditLimits[d.customerId]
      transactionId == transactionIdAfter(pay)
  IN IF d.customerId \notin DOMAIN customerCreditLimits \/ customerCreditLimit = 0
     THEN [pay |-> pay,
           pubs |-> << [type |-> PAYMENT_FAILED,
                        data |-> [orderId |-> d.orderId, reason |-> "Cliente no encontrado"]] >>]
     ELSE IF d.amount > customerCreditLimit
          THEN [pay |-> pay,
                pubs |-> << [type |-> PAYMENT_FAILED,
                             data |-> [orderId |-> d.orderId, reason |-> "Fondos insuficientes",
                                       details |-> [required |-> d.amount,
                                                    available |-> customerCreditLimit]]] >>]
          ELSE [pay |-> SetProp(pay, transactionId,
                                [id |-> transactionId, orderId |-> d.orderId,
                                 customerId |-> d.customerId, amount |-> d.amount,
                                 status |-> "COMPLETED"]),
                pubs |-> << [type |-> PAYMENT_SUCCEEDED,
                             data |-> [orderId |-> d.orderId, transactionId |-> transactionId,
                                       amount |-> d.amount]] >>]

(* the services' actions *)
\* POST /orders with a body that passes the validation: the order is saved as
\* PENDING and ORDER_CREATED is published to the coordinator
postOrders(body) ==
  /\ body.customerId # Undefined
  /\ Len(body.items) # 0
  /\ Cardinality(DOMAIN orders) < MaxOrders
  /\ LET orderId == OrderId(Cardinality(DOMAIN orders) + 1)
         totalAmount == totalAmountOf(body.items)
     IN /\ orders' = SetProp(orders, orderId,
                             [id |-> orderId, customerId |-> body.customerId,
                              items |-> body.items, totalAmount |-> totalAmount,
                              status |-> "PENDING"])
        /\ toOrchestrator' = Append(toOrchestrator,
                                    [type |-> ORDER_CREATED,
                                     data |-> [orderId |-> orderId,
                                               customerId |-> body.customerId,
                                               items |-> body.items,
                                               totalAmount |-> totalAmount]])
  /\ UNCHANGED << inventoryItems, reservations, payments, consumed >>
  /\ UNCHANGED notSvcVars

\* the next message of a service queue that its service has not handled yet
Pending(q) == consumed[q] < Len(serviceQueue(q))
NextContent(q) == serviceQueue(q)[consumed[q] + 1].message

\* order-service handleMessage
orderHandleMessage ==
  LET q == orderServiceContract.queueName IN
  /\ Pending(q)
  /\ LET content == NextContent(q) IN
     orders' = CASE content.type = ORDER_COMPLETED -> handleOrderCompleted(orders, content)
                 [] content.type = ORDER_CANCELLED -> handleOrderCancelled(orders, content)
                 [] OTHER -> orders
  /\ consumed' = [consumed EXCEPT ![q] = @ + 1]
  /\ UNCHANGED << inventoryItems, reservations, payments, toOrchestrator >>
  /\ UNCHANGED notSvcVars

\* the switch of the inventory service's handleMessage
inventorySwitch(inv, res, content) ==
  CASE content.type = INVENTORY_CHECK_REQUESTED -> handleInventoryCheckRequest(inv, res, content)
    [] content.type = INVENTORY_RESERVED -> handleInventoryReservation(inv, res, content)
    [] content.type = INVENTORY_RELEASED -> handleInventoryRelease(inv, res, content)
    [] OTHER -> [inv |-> inv, res |-> res, pubs |-> << >>]

\* inventory-service handleMessage
inventoryHandleMessage ==
  LET q == inventoryServiceContract.queueName IN
  /\ Pending(q)
  /\ LET content == NextContent(q)
         r == inventorySwitch(inventoryItems, reservations, content)
     IN /\ inventoryItems' = r.inv
        /\ reservations' = r.res
        /\ toOrchestrator' = toOrchestrator \o r.pubs
  /\ consumed' = [consumed EXCEPT ![q] = @ + 1]
  /\ UNCHANGED << orders, payments >>
  /\ UNCHANGED notSvcVars

\* the events that may arrive on inventory_service_queue: check requests of two
\* orders for three units of item-2 or one unit of item-3, and the commit and
\* the release of their reservations
InventoryInbound ==
  { [type |-> INVENTORY_CHECK_REQUESTED,
     data |-> [orderId |-> o, items |-> << [id |-> i.id, quantity |-> i.quantity] >>]] :
       o \in OrderIds,
       i \in { [id |-> "item-2", quantity |-> 3], [id |-> "item-3", quantity |-> 1] } }
  \cup { [type |-> t, data |-> [orderId |-> o, reservationId |-> "reservation-" \o o]] :
            t \in {INVENTORY_RESERVED, INVENTORY_RELEASED}, o \in OrderIds }

\* inventory-service handleMessage for an event that arrives on its queue
inventoryReceives(content) ==
  LET q == inventoryServiceContract.queueName
      r == inventorySwitch(inventoryItems, reservations, content)
  IN /\ consumed[q] < MaxInventoryEvents
     /\ inventoryItems' = r.inv
     /\ reservations' = r.res
     /\ toOrchestrator' = toOrchestrator \o r.pubs
     /\ consumed' = [consumed EXCEPT ![q] = @ + 1]
     /\ UNCHANGED << orders, payments >>
     /\ UNCHANGED notSvcVars

\* payment-service handleMessage
paymentHandleMessage ==
  LET q == paymentServiceContract.queueName IN
  /\ Pending(q)
  /\ LET content == NextContent(q)
         r == IF content.type = PAYMENT_REQUESTED
              THEN handlePaymentRequest(payments, content)
              ELSE [pay |-> payments, pubs |-> << >>]
     IN /\ payments' = r.pay
        /\ toOrchestrator' = toOrchestrator \o r.pubs
  /\ consumed' = [consumed EXCEPT ![q] = @ + 1]
  /\ UNCHANGED << orders, inventoryItems, reservations >>
  /\ UNCHANGED notSvcVars

\* the coordinator's subscription delivers the next message of orchestrator_queue
orchestratorReceives ==
  /\ Len(calls) < Len(toOrchestrator)
  /\ handleMessageWithin(toOrchestrator[Len(calls) + 1], MaxSagaEvents)

(* --------------------------- specifications ---------------------------- *)
DefaultEnv == [TRANSPORT_TYPE |-> Undefined, brokerUp |-> TRUE]

InitFacadeWith(e) ==
  /\ env = e
  /\ messageService = NewMessageService("orchestrator", e)
  /\ msCalls = << >>
  /\ setup = "notStarted"

\* everything but the coordinator's registry and subscription
InitStores ==
  /\ sagaStore = EmptyMap
  /\ calls = << >>
  /\ published = << >>
  /\ acked = {}
  /\ tcpRegistry = EmptyMap
  /\ clients = EmptyMap
  /\ messageQueue = EmptyMap
  /\ servers = EmptyMap
  /\ handlers = EmptyMap
  /\ socks = << >>
  /\ pubCalls = << >>
  /\ delivered = [ch \in Channels |-> << >>]
  /\ queuedLog = [ch \in Channels |-> << >>]
  /\ orders = EmptyMap
  /\ inventoryItems = inventoryItemsAtStart
  /\ reservations = EmptyMap
  /\ payments = EmptyMap
  /\ toOrchestrator = << >>
  /\ consumed = [q \in ServiceQueues |-> 0]

InitRest ==
  /\ serviceRegistry = EmptyMap
  /\ subscribed = FALSE
  /\ InitStores

InitPortsWith(name) ==
  /\ ownName = name
  /\ portLog = << >>

Init == InitRest /\ InitFacadeWith(DefaultEnv) /\ InitPortsWith(OwnServiceName)

Next ==
  \/ startServer
  \/ \E content \in InboundEvents : handleMessage(content)
  \/ \E i \in 1..MaxEvents : PublishReturns(i)
  \/ \E i \in 1..MaxEvents : PublishRaises(i)

Spec == Init /\ [][Next]_vars

\* the coordinator with the events of one order and the events that have no
\* entry in the handlers table
RoutingEvents ==
  { e \in InboundEvents : e.data.orderId = OrderId(1) } \cup InheritedNameEvents

NextRouting ==
  \/ startServer
  \/ \E content \in RoutingEvents : handleMessage(content)
  \/ \E i \in 1..MaxEvents : PublishReturns(i)
  \/ \E i \in 1..MaxEvents : PublishRaises(i)

SpecRouting == Init /\ [][NextRouting]_vars

\* the handlers under every registry that holds some of the core contracts:
\* the coordinator is subscribed, the events are those of one order
Registries ==
  { [name \in names |-> registerCoreServices[name]] :
      names \in SUBSET DOMAIN registerCoreServices }

RegistryEvents ==
  { e \in InboundEvents :
      /\ e.data.orderId = OrderId(1)
      /\ findEventHandler(e.type) # Undefined
      /\ "reservationId" \in DOMAIN e.data => e.data.reservationId = "R1" }

InitRegistry ==
  /\ serviceRegistry \in Registries
  /\ subscribed = TRUE
  /\ InitStores
  /\ InitFacadeWith(DefaultEnv)
  /\ InitPortsWith(OwnServiceName)

NextRegistry ==
  \/ \E content \in RegistryEvents : handleMessage(content)
  \/ \E i \in 1..MaxEvents : PublishReturns(i)
  \/ \E i \in 1..MaxEvents : PublishRaises(i)

SpecRegistry == InitRegistry /\ [][NextRegistry]_vars

\* the steps of the publishing process and of the servers it connects to,
\* without the reads of the servers
NextTcpSender ==
  \/ tcpInitialize
  \/ \E channel \in Channels, handler \in SubscribedHandlers : tcpSubscribe(channel, handler)
  \/ \E channel \in Channels : tcpPublish(channel)
  \/ \E s \in 1..MaxPublish : connectCallback(s)
  \/ \E s \in 1..MaxPublish : errorCallback(s)
  \/ \E s \in 1..MaxPublish : closeCallback(s)
  \/ \E channel \in Channels : tcpClose(channel)
  \/ \E channel \in Channels : ownerRestart(channel)

SpecTcpSender == Init /\ [][NextTcpSender]_vars

\* every connection attempt ends: its connect callback or its error callback runs
FairConnect == \A s \in 1..MaxPublish : WF_vars(connectCallback(s) \/ errorCallback(s))

SpecTcpSenderFair == SpecTcpSender /\ FairConnect

NextTcp ==
  \/ NextTcpSender
  \/ \E s \in 1..MaxPublish, n \in 1..(2 * MaxPublish) : dataCallback(s, n)

SpecTcp == Init /\ [][NextTcp]_vars

\* one channel with its subscriber, the acknowledgements of the subscriber's
\* handler and the reads of the publishing side
AckChannels == { "inventory_service_queue" }

NextTcpAck ==
  \/ tcpInitialize
  \/ \E channel \in AckChannels, handler \in SubscribedHandlers : tcpSubscribe(channel, handler)
  \/ \E channel \in AckChannels : Len(pubCalls) < MaxAckPublish /\ tcpPublish(channel)
  \/ \E s \in 1..MaxPublish : connectCallback(s)
  \/ \E s \in 1..MaxPublish : errorCallback(s)
  \/ \E s \in 1..MaxPublish, n \in 1..(2 * MaxPublish) : dataCallback(s, n)
  \/ \E s \in 1..MaxPublish : closeCallback(s)
  \/ \E channel \in AckChannels, k \in 1..MaxPublish : acknowledge(channel, k)
  \/ \E s \in 1..MaxPublish, n \in 1..(2 * MaxPublish) : clientDataCallback(s, n)

SpecTcpAck == Init /\ [][NextTcpAck]_vars

\* the owners of the channels subscribe any number of times, with either
\* handler, close and restart, while a message is published and read
NextTcpSubscribe ==
  \/ tcpInitialize
  \/ \E channel \in Channels, handler \in HandlerIds : tcpSubscribe(channel, handler)
  \/ \E channel \in Channels : Len(pubCalls) < MaxSubscribePublish /\ tcpPublish(channel)
  \/ \E s \in 1..MaxPublish : connectCallback(s)
  \/ \E s \in 1..MaxPublish : errorCallback(s)
  \/ \E s \in 1..MaxPublish, n \in 1..(2 * MaxPublish) : dataCallback(s, n)
  \/ \E s \in 1..MaxPublish : closeCallback(s)
  \/ \E channel \in Channels : tcpClose(channel)
  \/ \E channel \in Channels : ownerRestart(channel)

SpecTcpSubscribe == Init /\ [][NextTcpSubscribe]_vars

\* the publishing process and the owners of the channels with their close()
NextTcpClose ==
  \/ tcpInitialize
  \/ \E channel \in Channels, handler \in SubscribedHandlers : tcpSubscribe(channel, handler)
  \/ \E channel \in Channels : Len(pubCalls) < MaxClosePublish /\ tcpPublish(channel)
  \/ \E s \in 1..MaxPublish : connectCallback(s)
  \/ \E s \in 1..MaxPublish : errorCallback(s)
  \/ \E s \in 1..MaxPublish, n \in 1..(2 * MaxPublish) : dataCallback(s, n)
  \/ \E s \in 1..MaxPublish : closeCallback(s)
  \/ \E channel \in Channels : tcpClose(channel)
  \/ tcpCloseClients

SpecTcpClose == Init /\ [][NextTcpClose]_vars

InitFacade ==
  /\ InitRest
  /\ InitPortsWith(OwnServiceName)
  /\ \E t \in EnvTransportTypes, up \in BOOLEAN :
       InitFacadeWith([TRANSPORT_TYPE |-> t, brokerUp |-> up])

FacadeCalls ==
  { [op |-> "initialize", arg |-> Undefined] }
  \cup { [op |-> "createQueue", arg |-> q] : q \in FacadeQueues }
  \cup { [op |-> "subscribe", arg |-> "orchestrator_queue"] }

NextFacade ==
  \/ \E call \in FacadeCalls : facadeCall(call)
  \/ setupMessageService
  \/ brokerStarts

SpecFacade == InitFacade /\ [][NextFacade]_vars

\* the facade with callers that do not wait for one another
ConcurrentFacadeCalls ==
  FacadeCalls \cup { [op |-> "publish", arg |-> q] : q \in FacadeQueues }

NextFacadeConcurrent ==
  \/ \E call \in ConcurrentFacadeCalls : facadeCallStarts(call)
  \/ \E k \in 1..MaxFacadeCalls : initializeSettles(k)
  \/ brokerStarts

SpecFacadeConcurrent == InitFacade /\ [][NextFacadeConcurrent]_vars

\* the facade with a caller that awaits each call, publishes included, while
\* the broker may come up
NextFacadeRetry ==
  \/ \E call \in ConcurrentFacadeCalls : facadeCall(call)
  \/ brokerStarts

SpecFacadeRetry == InitFacade /\ [][NextFacadeRetry]_vars

\* the coordinator started over the facade, and the events it then handles
StartupEvents ==
  { e \in InboundEvents : e.type \in {ORDER_CREATED, PAYMENT_SUCCEEDED} }

NextStartup ==
  \/ startServerOverFacade
  \/ brokerStarts
  \/ \E content \in StartupEvents : handleMessage(content)
  \/ \E i \in 1..MaxEvents : PublishReturns(i)
  \/ \E i \in 1..MaxEvents : PublishRaises(i)

SpecStartup == InitFacade /\ [][NextStartup]_vars

\* the four processes together, on a transport that delivers every message
NextSaga ==
  \/ startServer
  \/ \E body \in OrderBodies : postOrders(body)
  \/ orchestratorReceives
  \/ \E i \in 1..MaxSagaEvents : PublishReturns(i)
  \/ orderHandleMessage
  \/ inventoryHandleMessage
  \/ paymentHandleMessage

SpecSaga == Init /\ [][NextSaga]_vars

\* the same with one body for each reply of the services: an order that goes
\* through, one of an unknown customer and one for an item out of stock
FairOrderBodies ==
  { body \in OrderBodies : body.customerId # "customer-3" /\ body.items # << >> }

NextSagaFair ==
  \/ startServer
  \/ \E body \in FairOrderBodies : postOrders(body)
  \/ orchestratorReceives
  \/ \E i \in 1..MaxSagaEvents : PublishReturns(i)
  \/ orderHandleMessage
  \/ inventoryHandleMessage
  \/ paymentHandleMessage

\* every process keeps running and every delivery and reply happens
FairSaga ==
  /\ WF_vars(startServer)
  /\ WF_vars(orchestratorReceives)
  /\ WF_vars(\E i \in 1..MaxSagaEvents : PublishReturns(i))
  /\ WF_vars(orderHandleMessage)
  /\ WF_vars(inventoryHandleMessage)
  /\ WF_vars(paymentHandleMessage)

SpecSagaFair == Init /\ [][NextSagaFair]_vars /\ FairSaga

\* the inventory service with any sequence of events on its queue
NextInventory == \E content \in InventoryInbound : inventoryReceives(content)

SpecInventory == Init /\ [][NextInventory]_vars

InitPorts ==
  /\ InitRest
  /\ InitFacadeWith(DefaultEnv)
  /\ \E name \in OwnNames : InitPortsWith(name)

NextPorts ==
  \/ portsInitialize
  \/ \E channel \in PortChannels : portsGetPortForChannel(channel)

SpecPorts == InitPorts /\ [][NextPorts]_vars

(* --------------------- orchestrator: derived views --------------------- *)
\* the inbound events of order o, in the order their handling started
HandledFor(o) ==
  SelectSeq([i \in 1..Len(calls) |-> calls[i].content], LAMBDA e : e.data.orderId = o)

\* the publish calls made for order o, in call order
PublishedFor(o) ==
  LET mine == SelectSeq(published, LAMBDA p : p.message.data.orderId = o)
  IN [k \in 1..Len(mine) |-> Pub(mine[k].queueName, mine[k].message.type, mine[k].message.data)]

\* every handler invocation for order o has finished and none of them raised
AllReturned(o) ==
  \A i \in 1..Len(calls) :
     calls[i].content.data.orderId = o => calls[i].outcome \in {"returned", "nohandler"}

TypesOf(h) == [k \in 1..Len(h) |-> h[k].type]

SagaLookupEvents == {INVENTORY_CHECK_SUCCEEDED, INVENTORY_CHECK_FAILED,
                     PAYMENT_SUCCEEDED, PAYMENT_FAILED}

(* -------------------------------- C1 ----------------------------------- *)
\* C1: the statuses of a saga are, in order, a subsequence of
\* INVENTORY_CHECK_PENDING, PAYMENT_PENDING, COMPLETED, possibly cut short by
\* FAILED, and a COMPLETED or FAILED saga never changes status again.
StatusMayFollow ==
  { <<"INVENTORY_CHECK_PENDING", "PAYMENT_PENDING">>,
    <<"INVENTORY_CHECK_PENDING", "COMPLETED">>,
    <<"PAYMENT_PENDING", "COMPLETED">>,
    <<"INVENTORY_CHECK_PENDING", "FAILED">>,
    <<"PAYMENT_PENDING", "FAILED">> }

C1_StatusOrder ==
  [][ \A o \in DOMAIN sagaStore :
        /\ o \in DOMAIN sagaStore'
        /\ \/ sagaStore'[o].status = sagaStore[o].status
           \/ << sagaStore[o].status, sagaStore'[o].status >> \in StatusMayFollow ]_vars

(* -------------------------------- C2 ----------------------------------- *)
\* C2: when order-created, inventory-check-succeeded(R) and payment-succeeded(T)
\* are handled for an order, in this order, and every publish returned, the saga
\* is COMPLETED and the publishes made for the order are, in this order,
\* inventory-check-requested(orderId, items), payment-requested(customerId,
\* totalAmount of order-created), inventory-reserved(R), order-completed(T).
C2_HappyPath ==
  \A o \in OrderIds :
    LET h == HandledFor(o) IN
    ( /\ TypesOf(h) = << ORDER_CREATED, INVENTORY_CHECK_SUCCEEDED, PAYMENT_SUCCEEDED >>
      /\ AllReturned(o) )
    => /\ sagaStore[o].status = "COMPLETED"
       /\ PublishedFor(o) =
            << Pub("inventory_service_queue", INVENTORY_CHECK_REQUESTED,
                   [orderId |-> o, items |-> h[1].data.items]),
               Pub("payment_service_queue", PAYMENT_REQUESTED,
                   [orderId |-> o, customerId |-> h[1].data.customerId,
                    amount |-> h[1].data.totalAmount]),
               Pub("inventory_service_queue", INVENTORY_RESERVED,
                   [orderId |-> o, reservationId |-> h[2].data.reservationId]),
               Pub("order_service_queue", ORDER_COMPLETED,
                   [orderId |-> o, transactionId |-> h[3].data.transactionId]) >>

C2_Witness ==
  \E o \in OrderIds :
    /\ TypesOf(HandledFor(o)) = << ORDER_CREATED, INVENTORY_CHECK_SUCCEEDED, PAYMENT_SUCCEEDED >>
    /\ AllReturned(o)
    /\ Len(PublishedFor(o)) = 4
    /\ PublishedFor(o)[4].message.type = ORDER_COMPLETED

(* -------------------------------- C3 ----------------------------------- *)
\* C3: when order-created, inventory-check-succeeded(R) and payment-failed(X)
\* are handled for an order, in this order, and every publish returned, the saga
\* is FAILED with failure reason X and inventory-released(R) was published
\* strictly before order-cancelled(X), with no order-cancelled before it.
C3_PaymentFailureCompensation ==
  \A o \in OrderIds :
    LET h == HandledFor(o)
        p == PublishedFor(o)
    IN
    ( /\ TypesOf(h) = << ORDER_CREATED, INVENTORY_CHECK_SUCCEEDED, PAYMENT_FAILED >>
      /\ AllReturned(o) )
    => /\ sagaStore[o].status = "FAILED"
       /\ GetProp(sagaStore[o], "failureReason") = h[3].data.reason
       /\ \E i, j \in 1..Len(p) :
            /\ i < j
            /\ p[i] = Pub("inventory_service_queue", INVENTORY_RELEASED,
                          [orderId |-> o, reservationId |-> h[2].data.reservationId])
            /\ p[j] = Pub("order_service_queue", ORDER_CANCELLED,
                          [orderId |-> o, reason |-> h[3].data.reason])
            /\ \A k \in 1..i : p[k].message.type # ORDER_CANCELLED

C3_Witness ==
  \E o \in OrderIds :
    /\ TypesOf(HandledFor(o)) = << ORDER_CREATED, INVENTORY_CHECK_SUCCEEDED, PAYMENT_FAILED >>
    /\ AllReturned(o)
    /\ sagaStore[o].status = "FAILED"
    /\ \E k \in 1..Len(PublishedFor(o)) : PublishedFor(o)[k].message.type = INVENTORY_RELEASED

(* -------------------------------- C4 ----------------------------------- *)
\* C4: when order-created and then inventory-check-failed(reason, items) are
\* handled for an order and every publish returned, the saga is FAILED and
\* stores that reason and item list, exactly one order-cancelled with the same
\* orderId, reason and items went to the order service channel, and no
\* payment-requested was published for the order.
C4_InventoryFailure ==
  \A o \in OrderIds :
    LET h == HandledFor(o)
        p == PublishedFor(o)
        cancels == { k \in 1..Len(p) : p[k].message.type = ORDER_CANCELLED }
    IN
    ( /\ TypesOf(h) = << ORDER_CREATED, INVENTORY_CHECK_FAILED >>
      /\ AllReturned(o) )
    => /\ sagaStore[o].status = "FAILED"
       /\ "failureReason" \in DOMAIN sagaStore[o]
       /\ sagaStore[o].failureReason = h[2].data.reason
       /\ "insufficientItems" \in DOMAIN sagaStore[o]
       /\ sagaStore[o].insufficientItems = h[2].data.insufficientItems
       /\ Cardinality(cancels) = 1
       /\ \A k \in cancels :
            p[k] = Pub("order_service_queue", ORDER_CANCELLED,
                       [orderId |-> o, reason |-> h[2].data.reason,
                        insufficientItems |-> h[2].data.insufficientItems])
       /\ \A k \in 1..Len(p) : p[k].message.type # PAYMENT_REQUESTED

C4_Witness ==
  \E o \in OrderIds :
    /\ TypesOf(HandledFor(o)) = << ORDER_CREATED, INVENTORY_CHECK_FAILED >>
    /\ AllReturned(o)
    /\ \E k \in 1..Len(PublishedFor(o)) : PublishedFor(o)[k].message.type = ORDER_CANCELLED

(* -------------------------------- C5 ----------------------------------- *)
\* C5: whenever a saga is FAILED and has a reservation id recorded, an
\* inventory-released carrying that reservation id was published for the order.
C5_FailedSagaReleased ==
  \A o \in DOMAIN sagaStore :
    ( sagaStore[o].status = "FAILED" /\ "reservationId" \in DOMAIN sagaStore[o] )
    => \E k \in 1..Len(published) :
         /\ published[k].message.type = INVENTORY_RELEASED
         /\ published[k].message.data =
              [orderId |-> o, reservationId |-> sagaStore[o].reservationId]

(* -------------------------------- C6 ----------------------------------- *)
\* C6: handling inventory-check-succeeded, inventory-check-failed,
\* payment-succeeded or payment-failed for an order id for which no
\* order-created was handled returns without raising, leaves the saga table
\* unchanged and publishes nothing.
NoOrderCreatedFor(o) ==
  \A i \in 1..Len(calls) :
     ~ (calls[i].content.type = ORDER_CREATED /\ calls[i].content.data.orderId = o)

C7_OneHandlerAtATime ==
  [][ Len(calls') > Len(calls) => InFlight = {} ]_vars

(* ----------------------- TCP transport: derived views ------------------ *)
\* the messages handed to the subscriber of a channel, in order
DeliveredOn(channel) ==
  [k \in 1..Len(delivered[channel]) |-> delivered[channel][k].message]

\* the messages handed to the subscriber that were read from socket s, in order
DeliveredFrom(s) ==
  LET mine == SelectSeq(delivered[socks[s].channel], LAMBDA d : d.sock = s)
  IN [k \in 1..Len(mine) |-> mine[k].message]

Range(q) == { q[k] : k \in 1..Len(q) }

IsPrefix(a, b) == Len(a) <= Len(b) /\ a = SubSeq(b, 1, Len(a))

\* a connection to the channel is recorded, nothing was lost to a closed
\* stream, and everything published to the channel so far has been read
Drained(channel) ==
  /\ channel \in DOMAIN clients
  /\ QueueOf(messageQueue, channel) = << >>
  /\ \A s \in 1..Len(socks) :
       socks[s].channel = channel =>
         /\ socks[s].wire = << >>
         /\ socks[s].state # "connecting"
         /\ socks[s].state \in {"closed", "reset"} => socks[s].sent = << >>

(* -------------------------------- C8 ----------------------------------- *)
\* C8: the events published to a channel while no connection could be
\* established are, once a connection is established and its stream has been
\* read, delivered to the subscriber in the order they were published, each
\* exactly once, and before any event published after them.
C8_QueuedDeliveredFifo ==
  \A channel \in Channels :
    Drained(channel) =>
      LET D == DeliveredOn(channel)
          Q == queuedLog[channel]
      IN /\ SelectSeq(D, LAMBDA m : m \in Range(Q)) = Q
         /\ \A i, j \in 1..Len(Q) : i < j => Q[i] < Q[j]
         /\ \A i, j \in 1..Len(D) : (i < j /\ D[j] \in Range(Q)) => D[i] < D[j]

(* -------------------------------- C9 ----------------------------------- *)
\* C9: on the inbound path every event written to a connection is handed to
\* the subscribed handler exactly once and in arrival order, however the
\* stream is cut into reads.
C9_InboundExactlyOnceInOrder ==
  \A s \in 1..Len(socks) :
    /\ IsPrefix(DeliveredFrom(s), socks[s].sent)
    /\ (socks[s].state = "open" /\ socks[s].wire = << >>)
         => DeliveredFrom(s) = socks[s].sent

(* -------------------------------- C10 ---------------------------------- *)
\* C10: when a connection attempt of publish fails while no connection is
\* recorded for the channel, the event is appended at the tail of that
\* channel's pending queue, the queues of the other channels are unchanged,
\* and publish returns normally.
C10_ConnectFailureQueues ==
  [][ \A s \in 1..Len(socks) :
        ( /\ socks[s].state = "connecting"
          /\ socks'[s].state = "closed"
          /\ socks[s].channel \notin DOMAIN clients )
        => LET channel == socks[s].channel
               c == AwaitingCall(s)
           IN /\ QueueOf(messageQueue', channel)
                   = Append(QueueOf(messageQueue, channel), pubCalls[c].message)
              /\ \A other \in Channels \ {channel} :
                   QueueOf(messageQueue', other) = QueueOf(messageQueue, other)
              /\ pubCalls'[c].outcome = "queued" ]_vars

C10_Witness ==
  \E c \in 1..Len(pubCalls) :
    /\ pubCalls[c].outcome = "queued"
    /\ Len(QueueOf(messageQueue, pubCalls[c].channel)) >= 2
    /\ messageQueue[pubCalls[c].channel][Len(messageQueue[pubCalls[c].channel])]
         = pubCalls[c].message
    /\ \E other \in Channels \ {pubCalls[c].channel} : QueueOf(messageQueue, other) # << >>

(* -------------------------------- C11 ---------------------------------- *)
\* C11: with the direct (TCP) transport selected, every createQueue call made
\* through the facade returns without error, and the start-up sequence
\* initialize, createQueue, subscribe of setupMessageService completes.
C11_CreateQueueSucceedsOnTcp ==
  messageService.transport.class = "TCPTransport" =>
    /\ \A k \in 1..Len(msCalls) :
         msCalls[k].op = "createQueue" => msCalls[k].outcome = "returned"
    /\ setup # "exited"

(* -------------------------------- C12 ---------------------------------- *)
\* C12: an event handled for an order whose saga is COMPLETED or FAILED leaves
\* the saga record unchanged and makes the coordinator publish nothing.
C12_TerminalSagaIgnoresEvents ==
  [][ ( /\ Len(calls') = Len(calls) + 1
        /\ calls'[Len(calls')].content.data.orderId \in DOMAIN sagaStore
        /\ sagaStore[calls'[Len(calls')].content.data.orderId].status
             \in {"COMPLETED", "FAILED"} )
      => /\ sagaStore' = sagaStore
         /\ published' = published
         /\ calls'[Len(calls')].pubs = << >> ]_vars

(* -------------------------------- C13 ---------------------------------- *)
\* the status of order o in a saga table, Undefined when it has no saga
StatusIn(store, o) == IF o \in DOMAIN store THEN store[o].status ELSE Undefined

\* C13: a saga becomes COMPLETED only by payment-succeeded handled while it is
\* PAYMENT_PENDING and becomes PAYMENT_PENDING only by inventory-check-succeeded
\* handled while it is INVENTORY_CHECK_PENDING; every COMPLETED saga has a
\* stored reservation id, and every inventory-reserved or inventory-released
\* event published carries a defined reservation id stored for that order.
C13_RoutingPreconditions ==
  [][ /\ \A o \in DOMAIN sagaStore' :
           /\ ( StatusIn(sagaStore', o) = "COMPLETED" /\ StatusIn(sagaStore, o) # "COMPLETED" )
                => /\ StatusIn(sagaStore, o) = "PAYMENT_PENDING"
                   /\ Len(calls') = Len(calls) + 1
                   /\ calls'[Len(calls')].content.type = PAYMENT_SUCCEEDED
           /\ ( StatusIn(sagaStore', o) = "PAYMENT_PENDING"
                /\ StatusIn(sagaStore, o) # "PAYMENT_PENDING" )
                => /\ StatusIn(sagaStore, o) = "INVENTORY_CHECK_PENDING"
                   /\ Len(calls') = Len(calls) + 1
                   /\ calls'[Len(calls')].content.type = INVENTORY_CHECK_SUCCEEDED
           /\ StatusIn(sagaStore', o) = "COMPLETED" => "reservationId" \in DOMAIN sagaStore'[o]
      /\ \A k \in 1..Len(published') :
           published'[k].message.type \in {INVENTORY_RESERVED, INVENTORY_RELEASED}
             => /\ published'[k].message.data.reservationId # Undefined
                /\ published'[k].message.data.reservationId \in ReservationIds ]_vars

(* -------------------------------- C14 ---------------------------------- *)
\* C14: a saga record, once created, is never deleted, and an order-created
\* handled for an order that already has a saga leaves that saga's status,
\* stored ids and recorded steps unchanged.
C14_OrderCreatedOnlyWhenAbsent ==
  [][ \A o \in DOMAIN sagaStore :
        /\ o \in DOMAIN sagaStore'
        /\ ( /\ Len(calls') = Len(calls) + 1
             /\ calls'[Len(calls')].content.type = ORDER_CREATED
             /\ calls'[Len(calls')].content.data.orderId = o )
           => sagaStore'[o] = sagaStore[o] ]_vars

(* -------------------------------- C15 ---------------------------------- *)
RoutedTypes == {ORDER_CREATED, INVENTORY_CHECK_SUCCEEDED, INVENTORY_CHECK_FAILED,
                PAYMENT_SUCCEEDED, PAYMENT_FAILED}

WellKnownOffset ==
  ("orchestrator_queue" :> 0) @@ ("order_service_queue" :> 1)
    @@ ("inventory_service_queue" :> 2) @@ ("payment_service_queue" :> 3)

WellKnownNames == { ServiceNameOf(ch) : ch \in DOMAIN WellKnownOffset }

\* C16: with base port P, every port returned or recorded for orchestrator,
\* order-service, inventory-service and payment-service is P+0, P+1, P+2 and
\* P+3, whatever calls were made before and however often they are repeated.
C16_WellKnownPortsFixed ==
  \A ch \in DOMAIN WellKnownOffset :
    LET name == ServiceNameOf(ch) IN
    /\ name \in DOMAIN tcpRegistry => tcpRegistry[name] = portBase + WellKnownOffset[ch]
    /\ \A k \in 1..Len(portLog) :
         portLog[k].name = name => portLog[k].port = portBase + WellKnownOffset[ch]

\* a well-known channel is resolved again after other names were registered
C16_Witness ==
  \E i, j, k \in 1..Len(portLog) :
    /\ i < j /\ j < k
    /\ portLog[i].name = portLog[k].name
    /\ portLog[i].name \in WellKnownNames
    /\ portLog[j].name \notin WellKnownNames
    /\ portLog[k].call = "getPortForChannel"
    /\ portLog[k].port = portLog[i].port

(* -------------------------------- C17 ---------------------------------- *)
\* C17: in one transport instance the port assigned to a service name never
\* changes, two distinct service names never hold the same port, and the port
\* of a name that is not well-known lies above the well-known range.
C17_PortsStableAndDistinct ==
  [][ /\ \A n \in DOMAIN tcpRegistry :
           n \in DOMAIN tcpRegistry' /\ tcpRegistry'[n] = tcpRegistry[n]
      /\ \A a, b \in DOMAIN tcpRegistry' :
           a # b => tcpRegistry'[a] # tcpRegistry'[b]
      /\ \A n \in DOMAIN tcpRegistry' \ WellKnownNames :
           tcpRegistry'[n] > portBase + 3 ]_vars

(* -------------------------------- C18 ---------------------------------- *)
\* C18: when the stream of an outbound connection closes, the channel is
\* removed from the recorded connections; a publish to a channel without a
\* recorded connection attempts a new connection; and when the attempt
\* succeeds the connection is sent every message of the channel's pending
\* queue, oldest first, then the new message, and the queue is left empty.
C18_CloseThenReconnectReplays ==
  [][ /\ \A s \in 1..Len(socks) :
           /\ ( socks[s].state \in {"open", "reset"} /\ socks'[s].state = "closed" )
                => socks[s].channel \notin DOMAIN clients'
           /\ ( socks[s].state = "connecting" /\ socks'[s].state = "open" )
                => LET channel == socks[s].channel
                       c == AwaitingCall(s)
                   IN /\ socks'[s].sent
                           = QueueOf(messageQueue, channel) \o << pubCalls[c].message >>
                      /\ socks'[s].wire = WriteAll(socks'[s].sent)
                      /\ QueueOf(messageQueue', channel) = << >>
                      /\ pubCalls'[c].outcome = "sent"
      /\ ( /\ Len(pubCalls') = Len(pubCalls) + 1
           /\ pubCalls'[Len(pubCalls')].channel \notin DOMAIN clients )
         => /\ Len(socks') = Len(socks) + 1
            /\ socks'[Len(socks')].state = "connecting"
            /\ socks'[Len(socks')].channel = pubCalls'[Len(pubCalls')].channel
            /\ pubCalls'[Len(pubCalls')].sock = Len(socks') ]_vars

\* a connection that carried a message has closed, and a later connection to
\* the same channel carries a queued message followed by a new one
C18_Witness ==
  \E s1, s2 \in 1..Len(socks) :
    /\ s1 < s2
    /\ socks[s1].channel = socks[s2].channel
    /\ socks[s1].state = "closed"
    /\ socks[s1].sent # << >>
    /\ socks[s2].state = "open"
    /\ Len(socks[s2].sent) >= 2
    /\ socks[s2].sent[1] \in Range(queuedLog[socks[s2].channel])
    /\ clients = (socks[s2].channel :> s2)
    /\ QueueOf(messageQueue, socks[s2].channel) = << >>

(* -------------------------------- C19 ---------------------------------- *)
\* the places where message m has been written to a connection
WrittenAt(sk, m) ==
  { << s, k >> \in (1..Len(sk)) \X (1..MaxPublish) :
      k <= Len(sk[s].sent) /\ sk[s].sent[k] = m }

\* the deliveries of message m to the subscriber of the channel
DeliveredAt(dl, channel, m) ==
  { k \in 1..Len(dl[channel]) : dl[channel][k].message = m }

\* C19: a read of ACK frames by the publishing side changes neither the
\* recorded connections nor the pending queues nor what was written; every
\* published message is written to a connection at most once and is then no
\* longer on a pending queue, and no message is delivered to a subscriber twice.
C19_AckHasNoEffectNoResend ==
  [][ /\ ( \E s \in 1..Len(socks) : Len(socks'[s].acks) < Len(socks[s].acks)
                                    /\ socks'[s].state = "open" )
         => /\ clients' = clients
            /\ messageQueue' = messageQueue
            /\ pubCalls' = pubCalls
            /\ \A s \in 1..Len(socks) : socks'[s].sent = socks[s].sent
                                        /\ socks'[s].wire = socks[s].wire
      /\ \A c \in 1..Len(pubCalls') :
           LET m == pubCalls'[c].message IN
           /\ Cardinality(WrittenAt(socks', m)) <= 1
           /\ WrittenAt(socks', m) # {} =>
                \A ch \in DOMAIN messageQueue' : m \notin Range(messageQueue'[ch])
           /\ \A ch \in Channels : Cardinality(DeliveredAt(delivered', ch, m)) <= 1 ]_vars

\* a queued message was written on reconnection, delivered and acknowledged,
\* and the publishing side has read the ACK
C19_Witness ==
  \E ch \in AckChannels :
    /\ queuedLog[ch] # << >>
    /\ \E k \in 1..Len(delivered[ch]) :
         /\ delivered[ch][k].message \in Range(queuedLog[ch])
         /\ delivered[ch][k].acked
         /\ socks[delivered[ch][k].sock].state = "open"
         /\ socks[delivered[ch][k].sock].acks = << >>

(* -------------------------------- C20 ---------------------------------- *)
\* C20: a transport instance makes at most one listening endpoint per channel:
\* the first subscribe for a channel makes it, and a later subscribe for the
\* same channel makes no further endpoint and leaves the recorded one as it is.
C20_OneEndpointPerChannel ==
  [][ /\ \A ch \in DOMAIN servers' : servers'[ch].endpoints <= 1
      /\ \A ch \in DOMAIN servers :
           ( ch \in DOMAIN handlers' /\ GetProp(handlers, ch) # handlers'[ch] )
             => servers'[ch] = servers[ch]
      /\ \A ch \in DOMAIN servers' \ DOMAIN servers :
           /\ ch \in DOMAIN handlers'
           /\ servers'[ch].endpoints = 1
           /\ servers'[ch].listening ]_vars

\* the channel was subscribed to a second time, with another handler
C20_Witness ==
  \E ch \in DOMAIN servers :
    /\ servers[ch].endpoints = 1
    /\ servers[ch].listening
    /\ ch \in DOMAIN handlers
    /\ handlers[ch] # servers[ch].handler

(* -------------------------------- C21 ---------------------------------- *)
\* C21: after close() the transport holds no outbound connection and no
\* listening endpoint: no connection is recorded for any channel and no server
\* of the closed instance listens; and a second close() right after the first
\* changes nothing.
C21_CloseReleasesAll ==
  [][ /\ ( \E s \in 1..Len(socks) : socks[s].state = "open" /\ socks'[s].state = "ending" )
         => /\ clients' = EmptyMap
            /\ endClients(socks', clients') = socks'
      /\ \A ch \in DOMAIN servers :
           ( servers[ch].listening /\ ch \in DOMAIN servers' /\ ~ servers'[ch].listening )
             => ~ Listening(servers[ch].port)' ]_vars

(* -------------------------------- C22 ---------------------------------- *)
\* C22: whatever publish, subscribe and createQueue calls are made on one
\* facade, also before the first initialisation has finished, and as long as
\* no initialisation failed, transport.initialize is invoked at most once, and
\* a publish or subscribe has reached the transport only with the facade
\* initialised.
C22_InitializedOnce ==
  /\ messageService.transport.initializeFailures = 0
       => messageService.transport.initializeCalls <= 1
  /\ \A k \in 1..Len(msCalls) :
       ( msCalls[k].op \in {"publish", "subscribe"} /\ msCalls[k].outcome = "returned" )
         => messageService.initialized

(* -------------------------------- C23 ---------------------------------- *)
\* the spellings of the configured kind that equal 'tcp' ignoring letter case
TcpSpellings == { "tcp", "TCP", "Tcp" }

\* C23: the transport of a facade is the direct (TCP) transport exactly when
\* the configured kind is 'tcp' in some letter case, and the broker (RabbitMQ)
\* transport for 'rabbitmq', for an unset kind and for every other kind.
C23_FactorySelectsTransport ==
  /\ messageService.transport.class = "TCPTransport"
       <=> env.TRANSPORT_TYPE \in TcpSpellings
  /\ messageService.transport.class = "RabbitMQTransport"
       <=> env.TRANSPORT_TYPE \notin TcpSpellings

\* a facade made under 'TCP' or 'Tcp' has been initialised and subscribed
C23_Witness ==
  /\ env.TRANSPORT_TYPE \in {"TCP", "Tcp"}
  /\ messageService.transport.class = "TCPTransport"
  /\ messageService.initialized
  /\ messageService.transport.servers # EmptyMap

Quiescent ==
  /\ Len(calls) = Len(toOrchestrator)
  /\ InFlight = {}
  /\ \A q \in ServiceQueues : ~ Pending(q)

SagaStatusOf(o) == IF o \in DOMAIN sagaStore THEN sagaStore[o].status ELSE Undefined

\* C25: with every message delivered and every request answered once, an order
\* is COMPLETED only while its saga is COMPLETED and CANCELLED only while its
\* saga is FAILED, and once everything is delivered and handled the order of a
\* COMPLETED saga is COMPLETED and the order of a FAILED saga is CANCELLED.
C25_OrderFollowsSaga ==
  \A o \in DOMAIN orders :
    /\ orders[o].status = "COMPLETED" => SagaStatusOf(o) = "COMPLETED"
    /\ orders[o].status = "CANCELLED" => SagaStatusOf(o) = "FAILED"
    /\ Quiescent /\ subscribed =>
         /\ SagaStatusOf(o) \in {"COMPLETED", "FAILED"}
         /\ SagaStatusOf(o) = "COMPLETED" => orders[o].status = "COMPLETED"
         /\ SagaStatusOf(o) = "FAILED" => orders[o].status = "CANCELLED"

\* an order went through the whole saga and everything has been handled
C25_Witness ==
  /\ Quiescent
  /\ \E o \in DOMAIN orders :
       /\ orders[o].status = "COMPLETED"
       /\ SagaStatusOf(o) = "COMPLETED"
       /\ orders[o].transactionId = sagaStore[o].transactionId

(* -------------------------------- C26 ---------------------------------- *)
\* the handled events of order o, in processing order, that found its saga or
\* created it: the event types from the first order-created on
HandledTypesFor(o) ==
  LET routed == SelectSeq(calls, LAMBDA c : /\ c.content.data.orderId = o
                                            /\ c.content.type \in RoutedTypes)
      RECURSIVE fromCreated(_)
      fromCreated(k) ==
        IF k > Len(routed) THEN << >>
        ELSE IF routed[k].content.type = ORDER_CREATED
             THEN [j \in 1..(Len(routed) - k + 1) |-> routed[k + j - 1].content.type]
             ELSE fromCreated(k + 1)
  IN fromCreated(1)

StepTypes(o) == [k \in 1..Len(sagaStore[o].steps) |-> sagaStore[o].steps[k].type]

\* C26: the steps of every saga start with an order-created step and are the
\* handled events of its order in processing order, one step per event.
C26_StepsAreHandledEvents ==
  \A o \in DOMAIN sagaStore :
    /\ StepTypes(o) # << >>
    /\ StepTypes(o)[1] = ORDER_CREATED
    /\ StepTypes(o) = HandledTypesFor(o)

(* -------------------------------- C27 ---------------------------------- *)
\* the order-completed and order-cancelled publishes for order o, in call order
TerminalNotifications(o) ==
  SelectSeq(published, LAMBDA p : /\ p.message.type \in {ORDER_COMPLETED, ORDER_CANCELLED}
                                  /\ p.message.data.orderId = o)

\* C27: for every order the coordinator publishes at most one terminal
\* notification, so never both order-completed and order-cancelled.
C27_AtMostOneTerminalNotification ==
  \A o \in OrderIds : Len(TerminalNotifications(o)) <= 1

(* -------------------------------- C28 ---------------------------------- *)
\* C28: a message is acknowledged exactly once, and not before its dispatch
\* ended: no acknowledge while the handler is suspended, one acknowledge once
\* the handler returned, raised, or no handler was found.
C28_AcknowledgedOnceAfterDispatch ==
  /\ \A i \in 1..Len(calls) :
       calls[i].acks = IF calls[i].outcome = "running" THEN 0 ELSE 1
  /\ acked = { i \in 1..Len(calls) : calls[i].outcome # "running" }

\* three dispatches ended in the three ways, each acknowledged
C28_Witness ==
  /\ \E i \in 1..Len(calls) : calls[i].outcome = "nohandler" /\ calls[i].acks = 1
  /\ \E i \in 1..Len(calls) : calls[i].outcome = "raised" /\ calls[i].acks = 1
  /\ \E i \in 1..Len(calls) :
       calls[i].outcome = "returned" /\ calls[i].pubs # << >> /\ calls[i].acks = 1

(* -------------------------------- C29 ---------------------------------- *)
\* the publish calls made by invocation i
PublishedBy(pubs, i) == SelectSeq(pubs, LAMBDA p : p.by = i)

\* C29: when the publish a handler awaits raises, handleMessage ends the
\* dispatch without raising and acknowledges the message, the saga store keeps
\* what the handler wrote, and the handler calls no further publish, in that
\* step or later.
C29_PublishErrorCaught ==
  [][ \A i \in 1..Len(calls) :
        /\ ( calls[i].outcome = "running" /\ calls'[i].outcome = "raised" )
             => /\ calls'[i].acks = 1
                /\ sagaStore' = sagaStore
                /\ subscribed'
                /\ PublishedBy(published', i) = PublishedBy(published, i)
        /\ calls[i].outcome = "raised"
             => /\ calls'[i] = calls[i]
                /\ PublishedBy(published', i) = PublishedBy(published, i) ]_vars

\* payment-succeeded whose first publish raised: the saga is COMPLETED with its
\* step and transaction id, and order-completed was never published
C29_Witness ==
  \E i \in 1..Len(calls) :
    LET c == calls[i]
        o == c.content.data.orderId
    IN /\ c.content.type = PAYMENT_SUCCEEDED
       /\ c.outcome = "raised"
       /\ c.awaiting = 1
       /\ Len(c.pubs) = 2
       /\ i \in acked
       /\ sagaStore[o].status = "COMPLETED"
       /\ sagaStore[o].transactionId = c.content.data.transactionId
       /\ sagaStore[o].steps[Len(sagaStore[o].steps)].type = PAYMENT_SUCCEEDED
       /\ Len(PublishedBy(published, i)) = 1

(* -------------------------------- C30 ---------------------------------- *)
\* a saga that has not reached COMPLETED or FAILED
SagaOpen == \E o \in DOMAIN sagaStore : sagaStore[o].status \notin {"COMPLETED", "FAILED"}

\* C30: when every message is delivered and the services answer every request
\* once, a state with a saga that is neither COMPLETED nor FAILED leads to a
\* state in which every saga created so far is COMPLETED or FAILED.
C30_SagasTerminate == SagaOpen ~> ~ SagaOpen

\* a saga created from a posted order ended FAILED on the payment service's reply
C30_Witness ==
  \E o \in DOMAIN sagaStore :
    /\ o \in DOMAIN orders
    /\ sagaStore[o].status = "FAILED"
    /\ sagaStore[o].steps[Len(sagaStore[o].steps)].type = PAYMENT_FAILED
    /\ Len(toOrchestrator) = 3

(* -------------------------------- C31 ---------------------------------- *)
\* C31: when every connection attempt ends in its connect or its error
\* callback, every publish call that awaits a connection returns (its message
\* written or queued).
C31_PublishReturns ==
  \A c \in 1..MaxPublish :
    ( Len(pubCalls) >= c /\ pubCalls[c].outcome = "awaiting" )
      ~> ( Len(pubCalls) >= c /\ pubCalls[c].outcome # "awaiting" )

(* -------------------------------- C32 ---------------------------------- *)
\* the connected sockets of the publishing process to a channel
OpenTo(sk, channel) ==
  { s \in 1..Len(sk) : sk[s].channel = channel /\ sk[s].state = "open" }

\* C32: the publishing process never has two open connections to one channel,
\* and the record clients[channel] is deleted only in a step in which the
\* recorded connection itself closes.
C32_OneConnectionPerChannel ==
  [][ /\ \A channel \in Channels : Cardinality(OpenTo(socks', channel)) <= 1
      /\ \A channel \in DOMAIN clients :
           channel \notin DOMAIN clients'
             => /\ socks[clients[channel]].state # "closed"
                /\ socks'[clients[channel]].state = "closed" ]_vars

(* -------------------------------- C33 ---------------------------------- *)
\* C33: no item of the inventory service has a negative stock.
C33_StockNeverNegative ==
  \A id \in DOMAIN inventoryItems : inventoryItems[id].stock >= 0

(* -------------------------------- C34 ---------------------------------- *)
\* what publish, subscribe and createQueue have done on the transport
ReachedTransport(ms) ==
  IF ms.transport.class = "TCPTransport"
  THEN << ms.transport.servers, ms.transport.handlers >>
  ELSE << ms.transport.declared, ms.transport.consumers >>

\* C34: a call of the facade during which transport.initialize fails raises,
\* leaves the facade uninitialised and does nothing else on the transport, and
\* every call on an uninitialised facade calls transport.initialize again.
C34_FailedInitializeRetried ==
  [][ Len(msCalls') = Len(msCalls) + 1 =>
        LET t == messageService.transport
            u == messageService'.transport
        IN /\ u.initializeFailures > t.initializeFailures
                => /\ msCalls'[Len(msCalls')].outcome = "raised"
                   /\ ~ messageService'.initialized
                   /\ ReachedTransport(messageService') = ReachedTransport(messageService)
           /\ ~ messageService.initialized
                => u.initializeCalls = t.initializeCalls + 1
           /\ ( msCalls'[Len(msCalls')].op \in {"publish", "subscribe"}
                /\ msCalls'[Len(msCalls')].outcome = "returned" )
                => /\ messageService'.initialized
                   /\ u.initializeFailures = t.initializeFailures ]_vars

\* a publish failed with the initialisation, and a later publish, made after
\* the broker came up, initialised the facade and went through
C34_Witness ==
  /\ messageService.initialized
  /\ messageService.transport.initializeFailures >= 1
  /\ \E j, k \in 1..Len(msCalls) :
       /\ j < k
       /\ msCalls[j].op = "publish" /\ msCalls[j].outcome = "raised"
       /\ msCalls[k].op = "publish" /\ msCalls[k].outcome = "returned"

(* -------------------------------- C35 ---------------------------------- *)
\* C35: every message that the data callback hands over on a channel goes to
\* the handler of the most recent subscribe on that channel.
C35_LatestHandlerReceives ==
  [][ \A channel \in Channels :
        Len(delivered'[channel]) > Len(delivered[channel])
          => delivered'[channel][Len(delivered'[channel])].handler
               = GetProp(handlers, channel) ]_vars

(* -------------------------------- C36 ---------------------------------- *)
\* the service each published event type is meant for
TargetOf ==
  [t \in {INVENTORY_CHECK_REQUESTED, INVENTORY_RESERVED, INVENTORY_RELEASED} |->
     "inventory-service"]
  @@ [t \in {PAYMENT_REQUESTED} |-> "payment-service"]
  @@ [t \in {ORDER_COMPLETED, ORDER_CANCELLED} |-> "order-service"]

\* C36: every publish of the coordinator carries an event type of the table
\* above, its target service is registered, the channel is that service's
\* queue and the service's contract lists the type under handles; so nothing
\* is published for a target that is not registered.
C36_PublishedToHandlingService ==
  \A k \in 1..Len(published) :
    LET p == published[k] IN
    /\ p.message.type \in DOMAIN TargetOf
    /\ TargetOf[p.message.type] \in DOMAIN serviceRegistry
    /\ p.queueName = serviceRegistry[TargetOf[p.message.type]].queueName
    /\ p.message.type \in serviceRegistry[TargetOf[p.message.type]].handles

\* payment-succeeded handled while the order service is not registered:
\* inventory-reserved went to the inventory service and nothing else was published
C36_Witness ==
  /\ "order-service" \notin DOMAIN serviceRegistry
  /\ \E i \in 1..Len(calls) :
       /\ calls[i].content.type = PAYMENT_SUCCEEDED
       /\ calls[i].outcome = "returned"
       /\ Len(PublishedBy(published, i)) = 1
       /\ PublishedBy(published, i)[1].message.type = INVENTORY_RESERVED
       /\ PublishedBy(published, i)[1].queueName = inventoryServiceContract.queueName

====
